---------------------------- MODULE Spec2Model ----------------------------
(***************************************************************************)
(* Model of the speech feature-extraction core of odin                     *)
(* (odin/preprocessing/signal.py and odin/preprocessing/speech.py).        *)
(*                                                                         *)
(* Every function of the source is modelled as one call: Init draws the    *)
(* arguments of the call from bounded sets, the actions run the body of    *)
(* the function, and `ret` holds what the call returned or raised.         *)
(* 1-D arrays are sequences (Python index i is TLA+ index i+1).            *)
(***************************************************************************)
EXTENDS Integers, Sequences, FiniteSets, TLC

VARIABLES
    pc,       \* position of the running call
    args,     \* arguments of the call (args.op names the function)
    loc,      \* local variables of the running call
    ret,      \* what the call returned or raised
    vadMode   \* signal.py module variable __current_vad_mode: a float, in tenths

vars == <<pc, args, loc, ret, vadMode>>

(***************************************************************************)
(* Python values                                                           *)
(***************************************************************************)
\* an optional argument: None, or Some(x)
None == <<>>
Some(x) == <<x>>
NoRet == [kind |-> "none"]
Return(v) == [kind |-> "return", value |-> v]
Raise(exc, msg) == [kind |-> "raise", exc |-> exc, msg |-> msg]

Returned == ret.kind = "return"
Raised == ret.kind = "raise"

\* a Python float: a number, or NaN, with which every comparison is false
Float(v) == [nan |-> FALSE, v |-> v]
NaN == [nan |-> TRUE, v |-> 0]
FloatLess(a, b) == ~a.nan /\ ~b.nan /\ a.v < b.v
\* the builtins max(a, b) and min(a, b): the first argument unless the
\* second is greater (less)
PyMax(a, b) == IF FloatLess(a, b) THEN b ELSE a
PyMin(a, b) == IF FloatLess(b, a) THEN b ELSE a

IMax(a, b) == IF a >= b THEN a ELSE b
IMin(a, b) == IF a <= b THEN a ELSE b

RECURSIVE SeqMax(_)
SeqMax(s) == IF Len(s) = 1 THEN s[1] ELSE IMax(s[1], SeqMax(Tail(s)))

RECURSIVE SeqMin(_)
SeqMin(s) == IF Len(s) = 1 THEN s[1] ELSE IMin(s[1], SeqMin(Tail(s)))

RECURSIVE SeqSum(_)
SeqSum(s) == IF s = <<>> THEN 0 ELSE s[1] + SeqSum(Tail(s))

\* a[lo:hi] of Python for 0 <= lo, 0 <= hi (both clipped to len(a))
Slice(a, lo, hi) ==
    LET l == IMin(lo, Len(a))
        h == IMin(hi, Len(a))
    IN IF h <= l THEN <<>> ELSE SubSeq(a, l + 1, h)

\* all sequences over S of length lo..hi
SeqsOf(S, lo, hi) == UNION {[1..n -> S] : n \in lo..hi}

(***************************************************************************)
(* Bounds of the model                                                     *)
(***************************************************************************)
MaxSigLen == 6        \* longest signal handed to segment_axis
MaxFrameLen == 5      \* largest frame_length / hop_length tried

SampleVals == {1, 2}

(***************************************************************************)
(* signal.py: segment_axis (1-D array, axis = 0)                           *)
(***************************************************************************)
\* lines 679-688: the lengths the array is cut down / extended to
SegRoundup(length, fl, hop) ==
    IF length > fl THEN fl + (1 + (length - fl) \div hop) * hop ELSE fl

\* the lower multiple rounded one hop too far
SegRounddownOneMore(length, fl, hop) ==
    IF length > fl THEN fl + (1 + (length - fl) \div hop) * hop ELSE 0

SegRounddown(length, fl, hop) ==
    IF length > fl THEN fl + ((length - fl) \div hop) * hop ELSE 0

\* lines 693-711: the extended copy b made for end = 'pad' / 'wrap'.
\* A result "raise" is numpy refusing to broadcast the wrapped slice.
SegExtend(a, roundup, end, endvalue, endmode) ==
    LET length == Len(a)
        k == roundup - length
        fill == IF end = "pad" THEN [i \in 1..k |-> endvalue]
                ELSE Slice(a, 0, k)
        \* b[..., x:y] = fill needs len(fill) = y - x, or len(fill) = 1
        fits == Len(fill) = k \/ Len(fill) = 1
        filled == IF Len(fill) = k THEN fill ELSE [i \in 1..k |-> fill[1]]
    IN IF ~fits
       THEN Raise("ValueError", "could not broadcast input array")
       ELSE IF endmode = "pre"
            THEN Return(a \o filled)      \* b[:length] = a ; b[length:] = fill
            ELSE Return(filled \o a)      \* b[-length:] = a ; b[:k] = fill

\* lines 720-734: the strided view: n frames, frame i starts at i * hop
SegFrames(a, fl, hop) ==
    LET n == 1 + (Len(a) - fl) \div hop
    IN [i \in 1..n |-> [j \in 1..fl |-> a[(i - 1) * hop + j]]]

\* lines 715-734, given the (cut / extended / untouched) array
SegFinish(a, fl, hop) ==
    IF Len(a) = 0
    THEN Raise("ValueError", "Not enough data points to segment array")
    ELSE IF Len(a) < fl THEN Raise("AssertionError", "length >= frame_length")
    ELSE IF (Len(a) - fl) % hop # 0
         THEN Raise("AssertionError", "(length - frame_length) % hop == 0")
    ELSE Return(SegFrames(a, fl, hop))

\* lines 679-713: the block entered when the length does not fit
SegAdjust(a, fl, hop, end, endvalue, endmode) ==
    LET length == Len(a)
        roundup == SegRoundup(length, fl, hop)
        rounddown == SegRounddown(length, fl, hop)
    IN IF ~(rounddown < length /\ length < roundup)
       THEN Raise("AssertionError", "rounddown < length < roundup")
       ELSE IF end = "cut" THEN Return(Slice(a, 0, rounddown))
       ELSE IF end \in {"pad", "wrap"}
            THEN SegExtend(a, roundup, end, endvalue, endmode)
       ELSE Return(a)

\* the parameter checks without the test for a negative overlap
SegCheckNoNegativeOverlap(fl, hop) ==
    LET overlap == fl - hop
    IN IF overlap >= fl
       THEN Raise("ValueError", "frames cannot overlap by more than 100%")
       ELSE IF fl <= 0
            THEN Raise("ValueError", "overlap must be nonnegative and length must be positive")
       ELSE Return(TRUE)

\* lines 670-677: the parameter checks
SegCheck(fl, hop) ==
    LET overlap == fl - hop
    IN IF overlap >= fl
       THEN Raise("ValueError", "frames cannot overlap by more than 100%")
       ELSE IF overlap < 0 \/ fl <= 0
            THEN Raise("ValueError", "overlap must be nonnegative and length must be positive")
       ELSE Return(TRUE)

segment_axis(a, fl, hop, end, endvalue, endmode) ==
    LET chk == SegCheck(fl, hop)
    IN IF chk.kind = "raise" THEN chk
       ELSE IF Len(a) < fl \/ (Len(a) - fl) % hop # 0
            THEN LET adj == SegAdjust(a, fl, hop, end, endvalue, endmode)
                 IN IF adj.kind = "raise" THEN adj
                    ELSE SegFinish(adj.value, fl, hop)
       ELSE SegFinish(a, fl, hop)

SegArgs ==
    [op : {"segment_axis"},
     a : SeqsOf(SampleVals, 0, MaxSigLen),
     frame_length : -1..MaxFrameLen,
     hop_length : -1..(MaxFrameLen + 1),
     end : {"cut", "pad", "wrap", "clip"},
     endvalue : {0},
     endmode : {"pre", "post"}]

InitSeg ==
    /\ pc = "call"
    /\ args \in SegArgs
    /\ loc = <<>>
    /\ ret = NoRet
    /\ vadMode = Float(20)

CallSegmentAxis ==
    /\ pc = "call"
    /\ args.op = "segment_axis"
    /\ ret' = segment_axis(args.a, args.frame_length, args.hop_length,
                           args.end, args.endvalue, args.endmode)
    /\ pc' = "done"
    /\ UNCHANGED <<args, loc, vadMode>>

NextSeg == CallSegmentAxis

SpecSeg == InitSeg /\ [][NextSeg]_vars

(***************************************************************************)
(* signal.py: segment_axis on a 2-D array, along axis 0 or 1.  An array is *)
(* held by its shape <<rows, columns>> and its strides, counted in items:  *)
(* [shape, strides].  The result is held by its shape.                     *)
(***************************************************************************)
MaxRows == 3          \* most rows of the 2-D array
MaxNdLen == 5         \* most columns of the 2-D array

\* a fresh array in C order: the argument, np.empty(s) and a.copy()
NdArray(shape) == [shape |-> shape, strides |-> <<shape[2], 1>>]

\* a.swapaxes(-1, axis): a view with the two entries exchanged, or a itself
NdSwapaxes(a, axis) ==
    IF axis = 1 THEN a
    ELSE [shape |-> <<a.shape[2], a.shape[1]>>,
          strides |-> <<a.strides[2], a.strides[1]>>]

\* numpy: a is one segment of memory, in C or in Fortran order; an axis of
\* size 1 has no say, and an array without items is contiguous
NdContiguous(a) ==
    \/ a.shape[1] * a.shape[2] = 0
    \/ /\ a.shape[2] = 1 \/ a.strides[2] = 1
       /\ a.shape[1] = 1 \/ a.strides[1] = a.shape[2]
    \/ /\ a.shape[1] = 1 \/ a.strides[1] = 1
       /\ a.shape[2] = 1 \/ a.strides[2] = a.shape[1]

\* lines 689-712: swap the axis to the end, cut the last axis (a view) or
\* fill a new array b of the extended size, and swap back
SegNdResize(a, axis, size, end) ==
    LET t == NdSwapaxes(a, axis)
    IN IF end = "cut"
       THEN NdSwapaxes([t EXCEPT !.shape[2] = size], axis)
       ELSE NdSwapaxes(NdArray(<<t.shape[1], size>>), axis)

\* lines 679-712 on the shape: the size of the chosen axis after the cut or
\* the extension; a "raise" is the failed assert or numpy refusing to
\* broadcast the wrapped slice
SegNdAdjust(length, fl, hop, end) ==
    LET roundup == SegRoundup(length, fl, hop)
        rounddown == SegRounddown(length, fl, hop)
        k == roundup - length
    IN IF ~(rounddown < length /\ length < roundup)
       THEN Raise("AssertionError", "rounddown < length < roundup")
       ELSE IF end = "cut" THEN Return(rounddown)
       ELSE IF end = "pad" THEN Return(roundup)
       ELSE IF end = "wrap"
            THEN IF IMin(k, length) = k \/ IMin(k, length) = 1
                 THEN Return(roundup)
                 ELSE Raise("ValueError", "could not broadcast input array")
       ELSE Return(length)

\* line 713: length = a.shape[0]
SegNdLength(a, axis) == a.shape[1]

\* np.ndarray.__new__(np.ndarray, strides=, shape=, buffer=a), lines 726-727
\* and 733-734.  The buffer of a is requested first: an array that is not
\* one segment has none, which is a ValueError with Python 3 and a TypeError
\* with Python 2.  Then the strides are checked against the size of the
\* buffer; a buffer of size 0 counts as one of the requested size, so that
\* a view over an array without items is made and reads outside of it.
NdView(a, shape, strides, python) ==
    IF ~NdContiguous(a)
    THEN Raise(IF python = 2 THEN "TypeError" ELSE "ValueError",
               "ndarray is not contiguous")
    ELSE LET size == a.shape[1] * a.shape[2]
             numbytes == IF size = 0 THEN shape[1] * shape[2] * shape[3] ELSE size
             \* one more than the offset of the last item of the view
             extent == 1 + (shape[1] - 1) * strides[1] + (shape[2] - 1) * strides[2]
                         + (shape[3] - 1) * strides[3]
         IN IF extent > numbytes
            THEN Raise("ValueError", "strides is incompatible with shape of requested array and size of buffer")
            ELSE Return(shape)

\* lines 715-734: the checks on `length`, the number of frames, and the
\* strided view over the buffer of a, made over a copy of a after a TypeError
SegNdFinish(a, length, fl, hop, axis, python) ==
    IF length = 0
    THEN Raise("ValueError", "Not enough data points to segment array")
    ELSE IF length < fl THEN Raise("AssertionError", "length >= frame_length")
    ELSE IF (length - fl) % hop # 0
         THEN Raise("AssertionError", "(length - frame_length) % hop == 0")
    ELSE LET n == 1 + (length - fl) \div hop
             s == a.strides[axis + 1]                                  \* line 721
             newshape == IF axis = 0 THEN <<n, fl, a.shape[2]>>        \* line 722
                         ELSE <<a.shape[1], n, fl>>
             newstrides(b) == IF axis = 0 THEN <<hop * s, s, b.strides[2]>>
                              ELSE <<b.strides[1], hop * s, s>>        \* lines 723, 731
             view == NdView(a, newshape, newstrides(a), python)
             copy == NdArray(a.shape)                                  \* line 729
         IN IF view.kind = "raise" /\ view.exc = "TypeError"
            THEN NdView(copy, newshape, newstrides(copy), python)
            ELSE view

\* segment_axis(a, frame_length, hop_length, axis, end), lines 666-734
segment_axis_nd(shape, fl, hop, axis, end, python) ==
    LET chk == SegCheck(fl, hop)
        length == shape[axis + 1]
    IN IF chk.kind = "raise" THEN chk
       ELSE IF length < fl \/ (length - fl) % hop # 0
            THEN LET adj == SegNdAdjust(length, fl, hop, end)
                 IN IF adj.kind = "raise" THEN adj
                    ELSE LET a == SegNdResize(NdArray(shape), axis, adj.value, end)
                         IN SegNdFinish(a, SegNdLength(a, axis), fl, hop, axis,
                                        python)
       ELSE SegNdFinish(NdArray(shape), length, fl, hop, axis, python)

SegNdArgs ==
    [op : {"segment_axis_nd"},
     shape : (1..MaxRows) \X (1..MaxNdLen),
     frame_length : 1..3,
     hop_length : 1..3,
     axis : {0, 1},
     end : {"cut", "pad", "wrap"}]

InitSegNd ==
    /\ pc = "call"
    /\ args \in SegNdArgs
    /\ loc = <<>>
    /\ ret = NoRet
    /\ vadMode = Float(20)

\* the module runs under Python 2 and Python 3 (six, __future__), which
\* differ in the error of a buffer request on a non-contiguous array
CallSegmentAxisNd ==
    /\ pc = "call"
    /\ args.op = "segment_axis_nd"
    /\ \E python \in {2, 3} :
          ret' = segment_axis_nd(args.shape, args.frame_length, args.hop_length,
                                 args.axis, args.end, python)
    /\ pc' = "done"
    /\ UNCHANGED <<args, loc, vadMode>>

NextSegNd == CallSegmentAxisNd

SpecSegNd == InitSegNd /\ [][NextSegNd]_vars


(***************************************************************************)
(* signal.py: power2db                                                     *)
(*                                                                         *)
(* A real number is held as [sgn, db]: the number sgn * 10^(db/10), so     *)
(* that 10*log10 of a positive number is its db field, exactly.  1.0 is    *)
(* [1, 0], the default amin 1e-10 is [1, -100].  Decibel values are        *)
(* integers.                                                               *)
(***************************************************************************)
MaxSpecLen == 3       \* longest array handed to power2db

Num(sgn, db) == [sgn |-> sgn, db |-> IF sgn = 0 THEN 0 ELSE db]
NumLeZero(x) == x.sgn <= 0
NumAbs(x) == Num(IF x.sgn = 0 THEN 0 ELSE 1, x.db)
\* np.maximum of two non-negative numbers
NumMaximum(x, y) ==
    IF x.sgn = 0 THEN y
    ELSE IF y.sgn = 0 THEN x
    ELSE IF x.db >= y.db THEN x ELSE y
\* 10.0 * np.log10(x) for x > 0
TenLog10(x) == x.db

RECURSIVE NumArrayMax(_)
NumArrayMax(s) ==
    IF Len(s) = 1 THEN s[1] ELSE NumMaximum(s[1], NumArrayMax(Tail(s)))

\* line 175 with the wrong bound: clips at top_db itself
P2dClipAtTopDb(log_spec, top_db) ==
    [i \in 1..Len(log_spec) |-> IMax(log_spec[i], top_db)]

\* line 175: np.maximum(log_spec, log_spec.max() - top_db)
P2dClip(log_spec, top_db) ==
    [i \in 1..Len(log_spec) |-> IMax(log_spec[i], SeqMax(log_spec) - top_db)]

\* line 162 guarded by amin < 0 instead of amin <= 0
P2dAminRejectedOnlyNegative(amin) == amin.sgn < 0

\* line 161
P2dAminRejected(amin) == NumLeZero(amin)

\* lines 172-176: the clipping, its check, and the return
P2dTop(log_spec, top_db, steps) ==
    IF top_db = None THEN [out |-> Return(log_spec), steps |-> steps]
    ELSE IF top_db[1] < 0
         THEN [out |-> Raise("ValueError", "top_db must be non-negative"),
               steps |-> steps]
    ELSE IF Len(log_spec) = 0
         THEN [out |-> Raise("ValueError", "zero-size array to reduction operation maximum"),
               steps |-> Append(steps, "max")]
    ELSE [out |-> Return(P2dClip(log_spec, top_db[1])),
          steps |-> Append(steps, "max")]

\* lines 169-170, given the reference value
P2dLog(magnitude, ref_value, amin, top_db, steps) ==
    LET ref_db == TenLog10(NumMaximum(amin, ref_value))
        log_spec == [i \in 1..Len(magnitude) |->
                        TenLog10(NumMaximum(amin, magnitude[i])) - ref_db]
    IN P2dTop(log_spec, top_db, steps \o <<"log10", "log10">>)

\* lines 161-176.  ref is Scalar(number) or the callable np.max
power2db(S, ref, amin, top_db) ==
    IF P2dAminRejected(amin)
    THEN [out |-> Raise("ValueError", "amin must be strictly positive"),
          steps |-> <<>>]
    ELSE LET magnitude == [i \in 1..Len(S) |-> NumAbs(S[i])]
         IN IF ref.callable
            THEN IF Len(magnitude) = 0
                 THEN [out |-> Raise("ValueError", "zero-size array to reduction operation maximum"),
                       steps |-> <<"abs", "ref()">>]
                 ELSE P2dLog(magnitude, NumArrayMax(magnitude), amin, top_db,
                             <<"abs", "ref()">>)
            ELSE P2dLog(magnitude, NumAbs(ref.value), amin, top_db, <<"abs">>)

Scalar(x) == [callable |-> FALSE, value |-> x]
NpMax == [callable |-> TRUE, value |-> Num(0, 0)]    \* value is not read

P2dNums == {Num(0, 0), Num(-1, -5), Num(1, -120), Num(1, -5), Num(1, 30)}

Power2dbArgs ==
    [op : {"power2db"},
     S : SeqsOf(P2dNums, 0, MaxSpecLen),
     ref : {Scalar(Num(1, 0)), Scalar(Num(-1, 10)), Scalar(Num(0, 0)), NpMax},
     amin : {Num(1, -100), Num(1, -20), Num(0, 0), Num(-1, 0)},
     top_db : {None, Some(80), Some(25), Some(0), Some(-1)}]

CallPower2db ==
    /\ pc = "call"
    /\ args.op = "power2db"
    /\ LET r == power2db(args.S, args.ref, args.amin, args.top_db)
       IN /\ ret' = r.out
          /\ loc' = [steps |-> r.steps]
    /\ pc' = "done"
    /\ UNCHANGED <<args, vadMode>>


(***************************************************************************)
(* signal.py: compute_delta (1-D data, axis = -1)                          *)
(*                                                                         *)
(* The filtered values are rationals: an array is held as its numerators   *)
(* `num` over one common denominator `den`.                                *)
(***************************************************************************)
MaxDeltaLen == 3      \* longest array handed to compute_delta
MaxWidth == 5         \* largest width tried
MaxOrder == 2         \* largest order tried

PyInt(v) == [type |-> "int", val |-> v]
PyFloat(v) == [type |-> "float", val |-> v]

\* line 414
DeltaWidthRejected(width) == width < 3 \/ width % 2 # 1

\* line 417
DeltaOrderRejected(order) == order.val <= 0 \/ order.type # "int"

\* lines 420-421: half_length, and the taps m, m-1, ..., -m before scaling
DeltaHalfLength(width) == 1 + width \div 2
\* line 421 with the taps in increasing order, -m .. m
DeltaTapsAscending(width) ==
    LET hl == DeltaHalfLength(width)
    IN [j \in 1..(2 * hl - 1) |-> j - hl]

DeltaTaps(width) ==
    LET hl == DeltaHalfLength(width)
    IN [j \in 1..(2 * hl - 1) |-> hl - j]
\* line 424 with the sum of the magnitudes instead of their squares
DeltaScaleAbs(width) ==
    LET w == DeltaTaps(width)
    IN SeqSum([j \in 1..Len(w) |-> IF w[j] >= 0 THEN w[j] ELSE -w[j]])

\* line 424: np.sum(np.abs(window)**2), the scale the taps are divided by
DeltaScale(width) ==
    LET w == DeltaTaps(width) IN SeqSum([j \in 1..Len(w) |-> w[j] * w[j]])

\* lines 427-430: np.pad(data, (width, width), mode='edge')
DeltaPad(data, width) ==
    [p \in 1..(Len(data) + 2 * width) |->
        data[IMin(IMax(p - width, 1), Len(data))]]

\* line 434: sp.signal.lfilter(window, 1, x) on the numerators: a causal FIR
\* filter started from a zero state
DeltaLfilter(taps, x) ==
    [n \in 1..Len(x) |->
        SeqSum([j \in 1..Len(taps) |->
                    IF n - j + 1 >= 1 THEN taps[j] * x[n - j + 1] ELSE 0])]

\* lines 432-435: the list of the 1st .. order-th filtered arrays
RECURSIVE DeltaIterate(_, _, _, _)
DeltaIterate(x, taps, scale, n) ==
    IF n = 0 THEN <<>>
    ELSE LET y == [num |-> DeltaLfilter(taps, x.num), den |-> x.den * scale]
         IN <<y>> \o DeltaIterate(y, taps, scale, n - 1)

\* lines 441-443 with the slice left open at its end
DeltaTrimNoStop(y, T, hl) ==
    LET L == Len(y.num)
    IN [num |-> Slice(y.num, L - hl - T, L), den |-> y.den]

\* lines 441-443: delta_x[-half_length - T : -half_length]
DeltaTrim(y, T, hl) ==
    LET L == Len(y.num)
    IN [num |-> Slice(y.num, L - hl - T, L - hl), den |-> y.den]

compute_delta(data, width, order, trim) ==
    IF DeltaWidthRejected(width)
    THEN Raise("ValueError", "width must be an odd integer >= 3")
    ELSE IF DeltaOrderRejected(order)
    THEN Raise("ValueError", "order must be a positive integer")
    ELSE IF Len(data) = 0
    THEN Raise("ValueError", "can't extend empty axis using modes other than 'constant' or 'empty'")
    ELSE LET all_deltas == DeltaIterate([num |-> DeltaPad(data, width), den |-> 1],
                                        DeltaTaps(width), DeltaScale(width),
                                        order.val)
         IN IF trim
            THEN Return([n \in 1..Len(all_deltas) |->
                            DeltaTrim(all_deltas[n], Len(data),
                                      DeltaHalfLength(width))])
            ELSE Return(all_deltas)

DeltaArgs ==
    [op : {"compute_delta"},
     data : SeqsOf({0, 1, 2}, 0, MaxDeltaLen),
     width : 1..MaxWidth,
     order : {PyInt(v) : v \in -1..MaxOrder} \cup {PyFloat(1), PyFloat(2)},
     trim : BOOLEAN]

CallComputeDelta ==
    /\ pc = "call"
    /\ args.op = "compute_delta"
    /\ ret' = compute_delta(args.data, args.width, args.order, args.trim)
    /\ pc' = "done"
    /\ UNCHANGED <<args, loc, vadMode>>

InitDsp ==
    /\ pc = "call"
    /\ args \in Power2dbArgs \cup DeltaArgs
    /\ loc = <<>>
    /\ ret = NoRet
    /\ vadMode = Float(20)

NextDsp == CallPower2db \/ CallComputeDelta

SpecDsp == InitDsp /\ [][NextDsp]_vars


(***************************************************************************)
(* signal.py: set_vad_mode and vad_energy                                  *)
(*                                                                         *)
(* Means and thresholds are fixed-point numbers in hundredths, standard    *)
(* deviations in tenths and the sensitivity alpha in tenths (2.0 is 20),   *)
(* so that mean - alpha * sigma is exact.  A normalized log-energy is kept *)
(* exactly, as the record [nan, v, hundredths]: v is a sequence of         *)
(* integers without a common factor, entry i of the array is the real      *)
(* number v[i] * sqrt(n / sum(v*v)) with n = Len(v), and hundredths[i] is  *)
(* that number rounded to the nearest hundredth.  The fit of the mixture   *)
(* (sklearn) is the environment: it fails with an exception or hands back  *)
(* the means and precisions of the K components.                           *)
(***************************************************************************)
MaxEnergyLen == 3     \* most frames handed to vad_energy
MaxDistribNb == 3     \* largest distrib_nb tried

\* floor of the square root, by bisection: lo * lo <= n < hi * hi
RECURSIVE ISqrtBetween(_, _, _)
ISqrtBetween(n, lo, hi) ==
    IF hi - lo <= 1 THEN lo
    ELSE LET mid == (lo + hi) \div 2
         IN IF mid * mid <= n THEN ISqrtBetween(n, mid, hi)
            ELSE ISqrtBetween(n, lo, mid)
ISqrt(n) == ISqrtBetween(n, 0, IMin(n + 1, 46340))

\* lines 450-453
VAD_MODE_STRICT == 12
VAD_MODE_STANDARD == 20
VAD_MODE_SENSITIVE == 24

\* lines 464-467: the value set_vad_mode stores, for a number (in tenths):
\* min(max(mode, 1.), 2.4)
VadClamp(mode) == PyMin(PyMax(mode, Float(10)), Float(24))

RECURSIVE Gcd(_, _)
Gcd(a, b) == IF b = 0 THEN a ELSE Gcd(b, a % b)
RECURSIVE SeqGcd(_)
SeqGcd(s) == IF s = <<>> THEN 0 ELSE Gcd(IF s[1] < 0 THEN -s[1] ELSE s[1], SeqGcd(Tail(s)))

\* line 473, np.mean of a constant log_energy in doubles: the sign of
\* log_energy - mean.  One or two equal entries have their own value as
\* mean; the sum of three or more can be rounded, and the mean is then a
\* little above (-1) or below (1) the entries unless they are such that no
\* sum is rounded (0), as integers are
VadMeanRoundings(x) ==
    IF Len(x) >= 3 /\ \A i \in 1..Len(x) : x[i] = x[1] THEN {-1, 0, 1} ELSE {0}

\* line 473: (log_energy - mean) / std.  x holds integers proportional to
\* the entries of log_energy (the quotient does not depend on a positive
\* factor of its input).  With d[i] = n*x[i] - sum(x), the quotient is
\* d[i] * sqrt(n) / sqrt(sum(d*d)).  An empty input, or a constant one with
\* an exact mean (rounding = 0), has deviation 0 and gives NaN in every
\* entry; a constant one with a rounded mean has the rounding error as its
\* deviation in every entry, and gives 1 or -1 in every entry.
VadNormalize(x, rounding) ==
    LET n == Len(x)
        d == [i \in 1..n |-> n * x[i] - SeqSum(x)]
        g == SeqGcd(d)
        v == IF g = 0 THEN [i \in 1..n |-> rounding] ELSE [i \in 1..n |-> d[i] \div g]
        ss == SeqSum([i \in 1..n |-> v[i] * v[i]])
        \* v[i] * sqrt(n / ss) rounded to the nearest hundredth
        Magnitude(vi) == (ISqrt((40000 * vi * vi * n) \div ss) + 1) \div 2
        Hundredth(vi) == IF vi < 0 THEN -Magnitude(vi) ELSE Magnitude(vi)
    IN IF n = 0 \/ ss = 0
       THEN [nan |-> TRUE, v |-> [i \in 1..n |-> 0], hundredths |-> [i \in 1..n |-> 0]]
       ELSE [nan |-> FALSE, v |-> v,
             hundredths |-> [i \in 1..n |-> Hundredth(v[i])]]

\* np.argmax: the first index of the largest entry
ArgMax(s) == CHOOSE i \in 1..Len(s) :
                /\ \A j \in 1..Len(s) : s[j] <= s[i]
                /\ \A j \in 1..(i - 1) : s[j] < s[i]

\* np.sqrt(1.0 / precision) in tenths; precision is the fraction num/den
VadSigma(precision) == ISqrt((100 * precision.den) \div precision.num)

\* lines 492-493 with the deviation added instead of subtracted
VadThresholdAbove(world, alpha) ==
    SeqMax(world.means) + alpha * VadSigma(world.precisions[ArgMax(world.means)])

\* lines 492-493
VadThreshold(world, alpha) ==
    SeqMax(world.means) - alpha * VadSigma(world.precisions[ArgMax(world.means)])

\* line 495, one entry: v[i] * sqrt(n / sum(v*v)) > threshold / 100, decided
\* exactly on the squares of the two sides
VadGreater(v, i, threshold) ==
    LET n == Len(v)
        ss == SeqSum([k \in 1..n |-> v[k] * v[k]])
        lhs == 10000 * v[i] * v[i] * n
        rhs == threshold * threshold * ss
    IN IF v[i] >= 0 /\ threshold < 0 THEN TRUE
       ELSE IF v[i] <= 0 /\ threshold >= 0 THEN FALSE
       ELSE IF v[i] > 0 THEN lhs > rhs
       ELSE lhs < rhs

\* line 495: log_energy.ravel() > threshold
VadLabel(x, threshold) == [i \in 1..Len(x) |-> IF VadGreater(x, i, threshold) THEN 1 ELSE 0]

\* lines 491-496: the threshold and the labels.  With a NaN mode the
\* threshold is NaN and no frame is greater than it
VadSelect(x, world, mode) ==
    IF mode.nan
    THEN [label |-> [i \in 1..Len(x) |-> 0], threshold |-> NaN, world |-> world]
    ELSE LET threshold == VadThreshold(world, mode.v)
         IN [label |-> VadLabel(x, threshold), threshold |-> threshold,
             world |-> world]

\* line 480, max_iter=nb_train_it: the numbers of EM iterations (an E-step
\* followed by an M-step) a GaussianMixture fit can end after.  The fit stops
\* at the first iteration whose gain is below its tolerance, which is left
\* at the default, and at max_iter at the latest.
VadFitIterations(nb_train_it) == 1..nb_train_it

\* line 486: the exceptions the handler catches
VadHandled == {"ValueError", "IndexError"}

\* line 487 letting the retry go down to one component
VadRetryDownToOne(K) == K - 1 >= 1

\* line 487
VadRetry(K) == K - 1 >= 2

\* what world.fit can do: sklearn refuses NaN input with a ValueError
FitErrors(x) == IF x.nan THEN {"ValueError"} ELSE {"ValueError", "IndexError"}
Worlds(K) ==
    [means : [1..K -> {-50, 80}],
     precisions : [1..K -> {[num |-> 4, den |-> 1], [num |-> 1, den |-> 4]}]]

VadArgs ==
    [op : {"vad_energy"},
     log_energy : SeqsOf({-2, 0, 3}, 0, MaxEnergyLen),
     distrib_nb : 2..MaxDistribNb,
     nb_train_it : {1, 2}]

InitVad ==
    /\ pc = "idle"
    /\ args \in VadArgs
    /\ loc = <<>>
    /\ ret = NoRet
    /\ vadMode = Float(VAD_MODE_STANDARD)

VadModeArgs ==
    {Float(5), Float(VAD_MODE_STRICT), Float(18), Float(VAD_MODE_SENSITIVE),
     Float(30), NaN}

\* set_vad_mode(mode), lines 456-467; mode.numeric is isinstance(mode, Number)
SetVadMode ==
    /\ pc = "idle"
    /\ \E mode \in [numeric : BOOLEAN, val : VadModeArgs] :
          vadMode' = IF mode.numeric THEN VadClamp(mode.val) ELSE vadMode
    /\ UNCHANGED <<pc, args, loc, ret>>

\* vad_energy is called: lines 470-483.  loc.fits lists the distrib_nb of
\* every world.fit attempted so far.
VadCall ==
    /\ pc = "idle"
    /\ pc' = "fit"
    /\ \E rounding \in VadMeanRoundings(args.log_energy) :
          loc' = [log_energy |-> VadNormalize(args.log_energy, rounding),
                  distrib_nb |-> args.distrib_nb,
                  fits |-> <<>>,
                  n_iter |-> 0]
    /\ UNCHANGED <<args, ret, vadMode>>

\* world.fit succeeds: lines 485, 491-496
VadFitOk ==
    /\ pc = "fit"
    /\ ~loc.log_energy.nan
    /\ \E world \in Worlds(loc.distrib_nb) :
          ret' = Return(VadSelect(loc.log_energy.v, world, vadMode))
    /\ \E n_iter \in VadFitIterations(args.nb_train_it) :
          loc' = [loc EXCEPT !.fits = Append(@, loc.distrib_nb),
                             !.n_iter = n_iter]
    /\ pc' = "done"
    /\ UNCHANGED <<args, vadMode>>

\* world.fit raises: lines 484-490
VadFitFail ==
    /\ pc = "fit"
    /\ \E exc \in FitErrors(loc.log_energy) :
          IF exc \notin VadHandled
          THEN /\ ret' = Raise(exc, "world.fit")
               /\ pc' = "done"
               /\ loc' = [loc EXCEPT !.fits = Append(@, loc.distrib_nb)]
          ELSE IF VadRetry(loc.distrib_nb)
          THEN \* line 488, the recursive call: it normalizes its argument
               \* again, which has mean 0 and deviation 1 already, or is
               \* 1 or -1 in every entry, with an exact mean
               /\ loc' = [log_energy |-> IF loc.log_energy.nan THEN loc.log_energy
                                          ELSE VadNormalize(loc.log_energy.v, 0),
                          distrib_nb |-> loc.distrib_nb - 1,
                          fits |-> Append(loc.fits, loc.distrib_nb),
                          n_iter |-> 0]
               /\ pc' = "fit"
               /\ ret' = ret
          ELSE /\ ret' = Return([label |-> [i \in 1..Len(loc.log_energy.v) |-> 0],
                                 threshold |-> 0,
                                 world |-> None])
               /\ pc' = "done"
               /\ loc' = [loc EXCEPT !.fits = Append(@, loc.distrib_nb)]
    /\ UNCHANGED <<args, vadMode>>

NextVad == SetVadMode \/ VadCall \/ VadFitOk \/ VadFitFail

SpecVad == InitVad /\ [][NextVad]_vars


(***************************************************************************)
(* signal.py: get_window, pre_emphasis, stft, istft                        *)
(*                                                                         *)
(* The transform is exact: a signal is an array of integer numerators      *)
(* `num` over one denominator `den`, a complex number is [re, im] with     *)
(* integer parts, and the FFT sizes are those whose roots of unity are     *)
(* 1, -i, -1, i (n_fft in {1, 2, 4}).  The Hann window is held doubled     *)
(* (0, 1, 2, 1 for 0, 0.5, 1, 0.5), which the denominators account for.    *)
(***************************************************************************)
MaxStftLen == 9       \* longest signal handed to stft

FftSizes == {1, 2, 4}

\* line 40
MAX_MEM_BLOCK == 524288
\* itemsize of np.complex64
ComplexItemSize == 8

Cx(re, im) == [re |-> re, im |-> im]
CxAdd(a, b) == Cx(a.re + b.re, a.im + b.im)
CxConj(a) == Cx(a.re, -a.im)
\* a * (-i)^m
CxTurn(a, m) ==
    LET q == m % 4
    IN IF q = 0 THEN a
       ELSE IF q = 1 THEN Cx(a.im, -a.re)
       ELSE IF q = 2 THEN Cx(-a.re, -a.im)
       ELSE Cx(-a.im, a.re)
RECURSIVE CxSum(_)
CxSum(s) == IF s = <<>> THEN Cx(0, 0) ELSE CxAdd(s[1], CxSum(Tail(s)))

\* fftpack.fft of a complex array whose length N is in FftSizes:
\* X[k] = sum_n x[n] * exp(-2 pi i n k / N), and exp(-2 pi i / N) = (-i)^(4/N)
Fft(x) ==
    LET N == Len(x)
    IN [k \in 1..N |->
          CxSum([n \in 1..N |-> CxTurn(x[n], (4 \div N) * (n - 1) * (k - 1))])]

\* fftpack.ifft: x[n] = (1/N) sum_k X[k] * exp(+2 pi i n k / N)
Ifft(X) ==
    LET N == Len(X)
        sum(n) == CxSum([k \in 1..N |->
                           CxTurn(X[k], 4 * N - (4 \div N) * (n - 1) * (k - 1))])
    IN [n \in 1..N |-> Cx(sum(n).re \div N, sum(n).im \div N)]

\* get_window('hann', Nx, fftbins=True), doubled, lines 311-318
Hann2(Nx) ==
    IF Nx = 1 THEN <<2>>
    ELSE IF Nx = 2 THEN <<0, 2>>
    ELSE <<0, 1, 2, 1>>

\* pre_emphasis(s, coeff), lines 340-341, coeff in hundredths:
\* np.append(s[0], s[1:] - coeff * s[:-1])
PreEmphasis(y, coeff) ==
    [num |-> [t \in 1..Len(y.num) |->
                IF t = 1 THEN 100 * y.num[1]
                ELSE 100 * y.num[t] - coeff * y.num[t - 1]],
     den |-> 100 * y.den]

\* np.pad(y, p, mode='reflect'), line 806
ReflectIndex(k, L) ==
    IF L = 1 THEN 1
    ELSE LET period == 2 * (L - 1)
             m == (k - 1) % period
         IN IF m < L THEN m + 1 ELSE period - m + 1
PadReflect(y, p) ==
    [num |-> [t \in 1..(Len(y.num) + 2 * p) |-> y.num[ReflectIndex(t - p, Len(y.num))]],
     den |-> y.den]

\* lines 811-816: the frame energies.  A value is the integer `v` over den^2,
\* or float32 eps where the sum is zero; `log` says np.log was applied.
StftEnergy(frames, energy) ==
    [t \in 1..Len(frames) |->
        LET e == SeqSum([n \in 1..Len(frames[t]) |-> frames[t][n] * frames[t][n]])
        IN [v |-> e, eps |-> (e = 0), log |-> (energy = "log")]]

\* lines 821-824: the column blocks (bl_s, bl_t) of the loop
RECURSIVE StftBlocks(_, _, _)
StftBlocks(bl_s, n_frames, n_columns) ==
    IF bl_s >= n_frames THEN <<>>
    ELSE <<[bl_s |-> bl_s, bl_t |-> IMin(bl_s + n_columns, n_frames)]>>
         \o StftBlocks(bl_s + n_columns, n_frames, n_columns)

\* lines 826-828: fft(fft_window * frame)[:bins].conj()
StftColumn(frame, window, bins) ==
    LET X == Fft([n \in 1..Len(frame) |-> Cx(window[n] * frame[n], 0)])
    IN [k \in 1..bins |-> CxConj(X[k])]

\* lines 817-828: the matrix, written block by block; a column no block
\* covers stays unwritten (np.empty)
StftMatrix(frames, window, bins) ==
    LET n_columns == MAX_MEM_BLOCK \div (bins * ComplexItemSize)
        blocks == StftBlocks(0, Len(frames), n_columns)
    IN [t \in 1..Len(frames) |->
          IF \E b \in 1..Len(blocks) : blocks[b].bl_s < t /\ t <= blocks[b].bl_t
          THEN StftColumn(frames[t], window, bins)
          ELSE <<>>]

\* stft, lines 793-832.  hop_length is None or Some(h); preemphasis is None
\* or Some(hundredths); energy is "False", "True" or "log".
\* The value returned holds the matrix (t, bins), whose entries carry the
\* factor 2 of the window over the denominator den, and the energies.
stft(y, n_fft, hop_length, center, preemphasis, energy) ==
    LET hop == IF hop_length = None THEN n_fft \div 4 ELSE hop_length[1]
        emph == preemphasis # None /\ 0 < preemphasis[1] /\ preemphasis[1] < 100
    IN IF emph /\ Len(y.num) = 0
       THEN Raise("IndexError", "index 0 is out of bounds for axis 0 with size 0")
       ELSE IF center /\ n_fft \div 2 > 0 /\ Len(y.num) = 0
       THEN Raise("ValueError", "can't extend empty axis 0 using modes other than 'constant' or 'empty'")
       ELSE
       LET y1 == IF emph THEN PreEmphasis(y, preemphasis[1]) ELSE y
           y2 == IF center THEN PadReflect(y1, n_fft \div 2) ELSE y1
           seg == segment_axis(y2.num, n_fft, hop, "cut", 0, "post")
       IN IF seg.kind = "raise" THEN seg
          ELSE Return([matrix |-> StftMatrix(seg.value, Hann2(n_fft), 1 + n_fft \div 2),
                       den |-> 2 * y2.den,
                       energy |-> IF energy = "False" THEN None
                                  ELSE Some(StftEnergy(seg.value, energy))])

\* pad_center(data, size), lines 533-545, for a 1-D array
PadCenter(data, size) ==
    LET n == Len(data)
        lpad == (size - n) \div 2
    IN IF lpad < 0 THEN Raise("ValueError", "Target size must be at least input size")
       ELSE Return([t \in 1..size |->
                      IF t > lpad /\ t <= lpad + n THEN data[t - lpad] ELSE 0])

\* line 905: np.concatenate((spec.conj(), spec[-2:0:-1]))
IstftSpectrum(spec) ==
    LET bins == Len(spec)
    IN [k \in 1..bins |-> CxConj(spec[k])]
       \o [k \in 1..(bins - 2) |-> spec[bins - k]]

\* line 900 with the window itself in place of its square
IstftWindowNotSquared(window) == [n \in 1..Len(window) |-> 2 * window[n]]

\* line 900: ifft_window * ifft_window (of the doubled window: 4 * w^2)
IstftWindowSquare(window) == [n \in 1..Len(window) |-> window[n] * window[n]]

\* lines 902-909: the overlap-add.  y4[t] is 4 * den * y[t] and
\* wsum4[t] is 4 * ifft_window_sum[t]
IstftOverlapAdd(stft_matrix, window, n_fft, hop, len) ==
    LET n_frames == Len(stft_matrix)
        ytmp(i) == LET x == Ifft(IstftSpectrum(stft_matrix[i]))
                   IN [n \in 1..n_fft |-> window[n] * x[n].re]
        covers(i, t) == (i - 1) * hop < t /\ t <= (i - 1) * hop + n_fft
        sq == IstftWindowSquare(window)
    IN [y4 |-> [t \in 1..len |->
                  SeqSum([i \in 1..n_frames |->
                            IF covers(i, t) THEN ytmp(i)[t - (i - 1) * hop] ELSE 0])],
        wsum4 |-> [t \in 1..len |->
                  SeqSum([i \in 1..n_frames |->
                            IF covers(i, t) THEN sq[t - (i - 1) * hop] ELSE 0])]]

\* istft, lines 887-915.  The entries of the matrix are over the
\* denominator den; sample t of the result is the rational num / den.
istft(stft_matrix, den, hop_length, center) ==
    LET n_fft == 2 * (Len(stft_matrix[1]) - 1)
        hop == IF hop_length = None THEN n_fft \div 4 ELSE hop_length[1]
        win == PadCenter(Hann2(n_fft), n_fft)
        n_frames == Len(stft_matrix)
        expected_signal_len == n_fft + hop * (n_frames - 1)
    IN IF win.kind = "raise" THEN win
       ELSE LET acc == IstftOverlapAdd(stft_matrix, win.value, n_fft, hop,
                                       expected_signal_len)
                \* lines 911-912: divide where the window sum is above tiny
                y == [t \in 1..expected_signal_len |->
                        IF acc.wsum4[t] > 0
                        THEN [num |-> 2 * acc.y4[t], den |-> den * acc.wsum4[t]]
                        ELSE [num |-> 2 * acc.y4[t], den |-> den * 4]]
            IN IF center
               THEN Return(Slice(y, n_fft \div 2, expected_signal_len - n_fft \div 2))
               ELSE Return(y)

StftArgs ==
    [op : {"stft"},
     y : SeqsOf({-1, 2}, 0, MaxStftLen),
     n_fft : FftSizes,
     hop_length : {None, Some(1), Some(2)},
     center : BOOLEAN,
     preemphasis : {None, Some(97)},
     energy : {"False", "True", "log"}]

InitStft ==
    /\ pc = "call"
    /\ args \in StftArgs
    /\ loc = <<>>
    /\ ret = NoRet
    /\ vadMode = Float(VAD_MODE_STANDARD)

CallStft ==
    /\ pc = "call"
    /\ args.op = "stft"
    /\ ret' = stft([num |-> args.y, den |-> 1], args.n_fft, args.hop_length,
                   args.center, args.preemphasis, args.energy)
    /\ pc' = "stft_done"
    /\ UNCHANGED <<args, loc, vadMode>>

\* the matrix stft returned is handed to istft, with the same hop_length,
\* window and center
CallIstft ==
    /\ pc = "stft_done"
    /\ Returned
    /\ args.n_fft >= 2
    /\ loc' = [stft |-> ret.value]
    /\ ret' = istft(ret.value.matrix, ret.value.den, args.hop_length, args.center)
    /\ pc' = "done"
    /\ UNCHANGED <<args, vadMode>>

NextStft == CallStft \/ CallIstft

SpecStft == InitStft /\ [][NextStft]_vars

(***************************************************************************)
(* signal.py: the block loop of stft, lines 817-828, one step per block,   *)
(* for the frame lengths at which a block holds few columns or none.  The  *)
(* matrix is held by the number of times each column was written.          *)
(***************************************************************************)
MaxBlockFrames == 6   \* most frames handed to the block loop

\* lines 821-822: int(MAX_MEM_BLOCK / (stft_matrix.shape[0] * itemsize))
StftColumnsPerBlock(n_fft) ==
    MAX_MEM_BLOCK \div ((1 + n_fft \div 2) * ComplexItemSize)

\* frame lengths giving 32768, 3, 2, 1 and 0 columns per block
BlockArgs ==
    [op : {"stft_blocks"},
     n_fft : {2, 43688, 65534, 131070, 131072},
     num_frames : 1..MaxBlockFrames]

InitBlocks ==
    /\ pc = "call"
    /\ args \in BlockArgs
    /\ loc = <<>>
    /\ ret = NoRet
    /\ vadMode = Float(VAD_MODE_STANDARD)

\* lines 817-823: np.empty, n_columns and range(0, num_frames, n_columns),
\* which raises for a step of zero
StftLoopEnter ==
    /\ pc = "call"
    /\ args.op = "stft_blocks"
    /\ LET n_columns == StftColumnsPerBlock(args.n_fft)
       IN /\ loc' = [n_columns |-> n_columns,
                     bl_s |-> 0,
                     blocks |-> <<>>,
                     written |-> [c \in 0..(args.num_frames - 1) |-> 0]]
          /\ IF n_columns = 0
             THEN /\ ret' = Raise("ValueError", "range() arg 3 must not be zero")
                  /\ pc' = "done"
             ELSE /\ ret' = ret
                  /\ pc' = "loop"
    /\ UNCHANGED <<args, vadMode>>

\* lines 823-828: one pass of the loop writes the columns bl_s .. bl_t - 1
StftLoopBlock ==
    /\ pc = "loop"
    /\ loc.bl_s < args.num_frames
    /\ LET bl_t == IMin(loc.bl_s + loc.n_columns, args.num_frames)
       IN loc' = [loc EXCEPT
                    !.written = [c \in DOMAIN @ |->
                                    IF loc.bl_s <= c /\ c < bl_t
                                    THEN @[c] + 1 ELSE @[c]],
                    !.blocks = Append(@, [bl_s |-> loc.bl_s, bl_t |-> bl_t]),
                    !.bl_s = loc.bl_s + loc.n_columns]
    /\ UNCHANGED <<pc, args, ret, vadMode>>

\* lines 829-832: the range is exhausted and the matrix is returned
StftLoopExit ==
    /\ pc = "loop"
    /\ loc.bl_s >= args.num_frames
    /\ ret' = Return(loc.written)
    /\ pc' = "done"
    /\ UNCHANGED <<args, loc, vadMode>>

NextBlocks == StftLoopEnter \/ StftLoopBlock \/ StftLoopExit

SpecBlocks == InitBlocks /\ [][NextBlocks]_vars




(***************************************************************************)
(* signal.py: spectra.  An array is held by its shape <<rows, columns>>;   *)
(* the STFT it starts from is the one stft computes.                       *)
(***************************************************************************)
\* np.dot(a, b) of two matrices
DotShape(a, b) ==
    IF a[2] = b[1] THEN Return(<<a[1], b[2]>>)
    ELSE Raise("ValueError", "shapes not aligned")

TShape(x) == <<x[2], x[1]>>

\* power2db(S, top_db=top_db) with the default ref and amin, lines 161-176
SpectraPower2db(shape, top_db) ==
    IF top_db # None /\ top_db[1] < 0
    THEN Raise("ValueError", "top_db must be non-negative")
    ELSE IF top_db # None /\ shape[1] * shape[2] = 0
    THEN Raise("ValueError", "zero-size array to reduction operation maximum")
    ELSE Return(shape)

\* lines 964-967: the STFT matrix, computed unless given
SpectraStft(y, S, n_fft, hop_length) ==
    IF S # None THEN Return(S[1])
    ELSE LET r == stft([num |-> y[1], den |-> 1], n_fft, hop_length, FALSE,
                       Some(97), "False")
         IN IF r.kind = "raise" THEN r
            ELSE Return([shape |-> <<Len(r.value.matrix), Len(r.value.matrix[1])>>,
                         complex |-> TRUE])

\* lines 971-974: fmax as an integer
SpectraFmax(sr, fmax) ==
    IF sr = None /\ fmax = None THEN 4000
    ELSE IF fmax = None THEN sr[1] \div 2 ELSE fmax[1]

\* lines 986-995: the mel spectrogram (n_mels, t), in decibels
SpectraMel(spec, n_fft, nb_melfilters, top_db) ==
    LET n_mels == IF nb_melfilters = None THEN 24 ELSE nb_melfilters[1]
        mel_basis == <<n_mels, 1 + n_fft \div 2>>
        mel_spec == DotShape(mel_basis, TShape(spec))
    IN IF mel_spec.kind = "raise" THEN mel_spec
       ELSE SpectraPower2db(mel_spec.value, top_db)

\* lines 1003-1009: the mapping returned
SpectraResults(spec, mel_spec, mfcc, nb_melfilters, nb_ceps) ==
    LET keys == {"spec"}
                \cup (IF nb_melfilters # None THEN {"mspec"} ELSE {})
                \cup (IF nb_ceps # None THEN {"mfcc"} ELSE {})
    IN [k \in keys |->
          IF k = "spec" THEN spec
          ELSE IF k = "mspec" THEN TShape(mel_spec)
          ELSE TShape(mfcc)]

\* lines 997-1001: the cepstrum (nb_ceps, t), the first DCT row dropped
SpectraMfcc(mel_spec, nb_ceps) ==
    LET dct_basis == <<nb_ceps + 1, mel_spec[1]>>
        full == DotShape(dct_basis, mel_spec)
    IN IF full.kind = "raise" THEN full
       ELSE Return(<<full.value[1] - 1, full.value[2]>>)

\* lines 967-1009, from the STFT matrix S on
SpectraOf(S, fmin, fmax, nb_melfilters, nb_ceps, top_db, log) ==
    LET n_fft == 2 * (S.shape[2] - 1)
        wants_mel == nb_melfilters # None \/ nb_ceps # None
        mel == IF wants_mel
               THEN SpectraMel(S.shape, n_fft, nb_melfilters, top_db)
               ELSE Return(None)
        mfcc == IF nb_ceps # None /\ mel.kind = "return"
                THEN SpectraMfcc(mel.value, nb_ceps[1])
                ELSE Return(None)
        spec == IF log THEN SpectraPower2db(S.shape, Some(80)) ELSE Return(S.shape)
    IN IF fmin >= fmax THEN Raise("ValueError", "fmin must < fmax.")
       ELSE IF ~S.complex
       THEN Raise("UnboundLocalError", "local variable 'spec' referenced before assignment")
       ELSE IF mel.kind = "raise" THEN mel
       ELSE IF mfcc.kind = "raise" THEN mfcc
       ELSE IF spec.kind = "raise" THEN spec
       ELSE Return(SpectraResults(spec.value, mel.value, mfcc.value,
                                  nb_melfilters, nb_ceps))

\* spectra, lines 964-1009
spectra(sr, y, S, n_fft, hop_length, nb_melfilters, nb_ceps, fmin, fmax, top_db, power, log) ==
    LET st == SpectraStft(y, S, n_fft, hop_length)
    IN IF st.kind = "raise" THEN st
       ELSE SpectraOf(st.value, fmin, SpectraFmax(sr, fmax), nb_melfilters,
                      nb_ceps, top_db, log)

MaxSpectraLen == 6    \* longest signal handed to spectra

SpectraArgs ==
    [op : {"spectra"},
     sr : {Some(8)},
     y : {Some(y) : y \in SeqsOf({2}, 0, MaxSpectraLen)},
     S : {None},
     n_fft : FftSizes,
     hop_length : {None, Some(1), Some(2)},
     nb_melfilters : {None, Some(3)},
     nb_ceps : {None, Some(2)},
     fmin : {0, 4},
     fmax : {None},
     top_db : {Some(80), Some(-1)},
     power : {2},
     log : BOOLEAN]
    \cup
    [op : {"spectra"},
     sr : {Some(8)},
     y : {None},
     S : {Some([shape |-> <<t, d>>, complex |-> c]) :
             t \in 1..2, d \in 2..3, c \in BOOLEAN},
     n_fft : {4},
     hop_length : {None},
     nb_melfilters : {None, Some(3)},
     nb_ceps : {None, Some(2)},
     fmin : {0},
     fmax : {None, Some(3)},
     top_db : {Some(80)},
     power : {2},
     log : BOOLEAN]

CallSpectra ==
    /\ pc = "call"
    /\ args.op = "spectra"
    /\ ret' = spectra(args.sr, args.y, args.S, args.n_fft, args.hop_length,
                      args.nb_melfilters, args.nb_ceps, args.fmin, args.fmax,
                      args.top_db, args.power, args.log)
    /\ pc' = "done"
    /\ UNCHANGED <<args, loc, vadMode>>


(***************************************************************************)
(* speech.py: speech_features, with the vad_energy of speech.py.           *)
(* The signal is held by its length and an array by its shape; the calls   *)
(* into librosa, resampy and sidekit are held by the shapes they return    *)
(* and the errors they raise.                                              *)
(***************************************************************************)
MaxFeatLen == 8       \* longest signal handed to speech_features

Frac(n, d) == [num |-> n, den |-> d]
\* int(x * sr), lines 464-465
IntOfProduct(x, sr) == (x.num * sr) \div x.den

\* resampy.resample: the length of the resampled signal, lines 162-171
SfResample(len, sr, sr_new) ==
    LET n_samples == (len * sr_new) \div sr
    IN IF n_samples < 1
       THEN Raise("ValueError", "Input signal length is too small to resample")
       ELSE Return(n_samples)

\* librosa.util.frame(s, frame_length, hop_length): the number of frames
LibrosaFrame(len, frame_length, hop_length) ==
    IF len < frame_length
    THEN Raise("ParameterError", "Buffer is too short")
    ELSE IF hop_length < 1
    THEN Raise("ParameterError", "Invalid hop_length")
    ELSE Return(1 + (len - frame_length) \div hop_length)

\* lines 457-467: resampling, fmin and fmax, n_fft and hop_length, pre-emphasis
SfPrepare(len, sr, win, shift, fmin, fmax, sr_new) ==
    LET rs == IF sr_new # None /\ sr_new[1] # sr
              THEN SfResample(len, sr, sr_new[1])
              ELSE Return(len)
        sr1 == IF sr_new # None /\ sr_new[1] # sr THEN sr_new[1] ELSE sr
        fmax1 == IF fmax = None THEN sr1 \div 2 ELSE fmax[1]
        fmin1 == IF fmin = None THEN 0
                 ELSE IF fmin[1] < 0 \/ fmin[1] >= fmax1 THEN 0 ELSE fmin[1]
    IN IF rs.kind = "raise" THEN rs
       ELSE IF rs.value = 0
       THEN Raise("IndexError", "index 0 is out of bounds for axis 0 with size 0")
       ELSE Return([len |-> rs.value, sr |-> sr1, fmin |-> fmin1, fmax |-> fmax1,
                    n_fft |-> IntOfProduct(win, sr1),
                    hop_length |-> IntOfProduct(shift, sr1)])

\* speech.py compute_delta(x, order=nb_delta), lines 343-410, on a (d, t)
\* array: the number of arrays in the list, each of the shape of x
SfDeltaCount(x, nb_delta) ==
    IF DeltaOrderRejected(nb_delta)
    THEN Raise("ValueError", "order must be a positive integer")
    ELSE Return(nb_delta.val)

\* lines 519-539 joined along the frame axis instead
SfAppendDeltaAlongFrames(x, nb_delta) ==
    IF x = None THEN Return(x)
    ELSE LET n == SfDeltaCount(x, nb_delta)
         IN IF n.kind = "raise" THEN n
            ELSE Return(<<x[1], (1 + n.value) * x[2]>>)

\* lines 519-539: np.concatenate([x] + compute_delta(x, order=nb_delta), axis=0)
SfAppendDelta(x, nb_delta) ==
    IF x = None THEN Return(x)
    ELSE LET n == SfDeltaCount(x, nb_delta)
         IN IF n.kind = "raise" THEN n
            ELSE Return(<<(1 + n.value) * x[1], x[2]>>)

\* line 519
SfWantsDelta(nb_delta) == nb_delta.val # 0 /\ nb_delta.val > 0

\* lines 519-539: the five streams, in the order of the code
SfDeltas(streams, nb_delta) ==
    IF ~SfWantsDelta(nb_delta) THEN Return(streams)
    ELSE LET r == [k \in DOMAIN streams |-> SfAppendDelta(streams[k], nb_delta)]
         IN IF \E k \in DOMAIN streams : r[k].kind = "raise"
            THEN Raise("ValueError", "order must be a positive integer")
            ELSE Return([k \in DOMAIN streams |-> r[k].value])

\* lines 540-541: the mapping returned; `.T` is taken of every stream but vad
SfMapping(spec, mspec, mfcc, vad, pitch, energy) ==
    IF None \in {spec, mspec, mfcc, pitch, energy}
    THEN Raise("AttributeError", "'NoneType' object has no attribute 'T'")
    ELSE Return([spec |-> TShape(spec), mspec |-> TShape(mspec),
                 mfcc |-> TShape(mfcc), vad |-> vad,
                 pitch |-> TShape(pitch), energy |-> TShape(energy)])

\* lines 484-541: the STFT, the streams, the deltas and the mapping
SfSpectral(a, l) ==
    LET fr == LibrosaFrame(l.len, l.n_fft, l.hop_length)
    IN IF fr.kind = "raise" THEN fr
       ELSE
       LET S == <<1 + l.n_fft \div 2, fr.value>>
           pitch_freq == IF a.get_pitch THEN S ELSE None
           powerspectrogram == IF a.get_spec THEN S ELSE None
           mel == <<a.nb_melfilters, S[2]>>
           melspectrogram == IF a.get_mspec THEN mel ELSE None
           mfcc == IF a.get_mfcc THEN <<a.nb_ceps, mel[2]>> ELSE None
           d == SfDeltas([pitch |-> pitch_freq, spec |-> powerspectrogram,
                          mspec |-> melspectrogram, mfcc |-> mfcc,
                          energy |-> l.log_energy], a.nb_delta)
       IN IF d.kind = "raise" THEN d
          ELSE SfMapping(d.value.spec, d.value.mspec, d.value.mfcc, l.vad,
                         d.value.pitch, d.value.energy)

\* the errors a fit of the sidekit Mixture may end with
MixtureErrors == {"ValueError", "FloatingPointError"}

GetVadValues ==
    {[truthy |-> FALSE, pair |-> None],
     [truthy |-> TRUE, pair |-> None],
     [truthy |-> TRUE, pair |-> Some(<<2, 24>>)]}

SfArgs ==
    [op : {"speech_features"},
     s_len : 0..MaxFeatLen,
     sr : {4},
     win : {Frac(1, 1), Frac(1, 2)},
     shift : {Frac(1, 2), Frac(1, 8)},
     nb_melfilters : {3},
     nb_ceps : {2},
     nb_delta : {PyInt(0), PyInt(1), PyInt(2), PyFloat(1)},
     get_spec : BOOLEAN, get_mspec : BOOLEAN, get_mfcc : BOOLEAN,
     get_pitch : BOOLEAN, get_energy : BOOLEAN,
     get_vad : GetVadValues,
     fmin : {Some(1), Some(5)},
     fmax : {None},
     sr_new : {None, Some(2)}]

\* lines 451-475: up to the frame energies
SfCall ==
    /\ pc = "call"
    /\ args.op = "speech_features"
    /\ LET p == SfPrepare(args.s_len, args.sr, args.win, args.shift,
                          args.fmin, args.fmax, args.sr_new)
           wants == args.get_energy \/ args.get_vad.truthy
           fr == IF p.kind = "raise" THEN p
                 ELSE IF wants
                 THEN LibrosaFrame(p.value.len, p.value.n_fft, p.value.hop_length)
                 ELSE Return(0)
       IN IF fr.kind = "raise"
          THEN /\ ret' = fr
               /\ pc' = "done"
               /\ loc' = loc
          ELSE /\ ret' = ret
               /\ pc' = IF args.get_vad.truthy THEN "sf_vad" ELSE "sf_spectral"
               /\ loc' = [len |-> p.value.len, sr |-> p.value.sr,
                          fmin |-> p.value.fmin, fmax |-> p.value.fmax,
                          n_fft |-> p.value.n_fft,
                          hop_length |-> p.value.hop_length,
                          distribNb |-> IF args.get_vad.pair = None THEN 8
                                        ELSE args.get_vad.pair[1][1],
                          nbTrainIt |-> IF args.get_vad.pair = None THEN 12
                                        ELSE args.get_vad.pair[1][2],
                          log_energy |-> IF args.get_energy
                                         THEN <<1, fr.value>> ELSE None,
                          frames |-> fr.value,
                          vad |-> None,
                          vad_failed |-> FALSE]
    /\ UNCHANGED <<args, vadMode>>

\* lines 478-479 and speech.py vad_energy, lines 187-224: the fit ends and
\* the label has one entry per frame
SfVadFitOk ==
    /\ pc = "sf_vad"
    /\ loc' = [loc EXCEPT !.vad = <<loc.frames>>]
    /\ pc' = "sf_spectral"
    /\ UNCHANGED <<args, ret, vadMode>>

\* speech.py vad_energy, lines 210-216: the fit raises, and nothing between
\* it and the caller of speech_features handles the error
SfVadFitFail ==
    /\ pc = "sf_vad"
    /\ \E exc \in MixtureErrors : ret' = Raise(exc, "mixture fit")
    /\ loc' = [loc EXCEPT !.vad_failed = TRUE]
    /\ pc' = "done"
    /\ UNCHANGED <<args, vadMode>>

\* lines 484-541
SfFinish ==
    /\ pc = "sf_spectral"
    /\ ret' = SfSpectral(args, loc)
    /\ pc' = "done"
    /\ UNCHANGED <<args, loc, vadMode>>

InitFeatWith(A) ==
    /\ pc = "call"
    /\ args \in A
    /\ loc = <<>>
    /\ ret = NoRet
    /\ vadMode = Float(VAD_MODE_STANDARD)

InitFeat ==
    \/ InitFeatWith(StftArgs)
    \/ InitFeatWith(SpectraArgs)
    \/ InitFeatWith(SfArgs)

NextFeat ==
    \/ CallStft
    \/ CallSpectra
    \/ SfCall
    \/ SfVadFitOk
    \/ SfVadFitFail
    \/ SfFinish

SpecFeat == InitFeat /\ [][NextFeat]_vars

(***************************************************************************)
(* The frame energies of stft (signal.py) and of speech_features           *)
(* (speech.py), on signals that hold silent frames.                        *)
(***************************************************************************)
MaxSilentLen == 5     \* longest signal whose frame energies are taken

\* librosa.util.frame(s, frame_length, hop_length), speech.py line 470: the
\* frames, frame t holding s[t*hop : t*hop + frame_length]
SfFrames(s, frame_length, hop_length) ==
    LET n == LibrosaFrame(Len(s), frame_length, hop_length)
    IN IF n.kind = "raise" THEN n
       ELSE Return([t \in 1..n.value |->
                      [k \in 1..frame_length |-> s[(t - 1) * hop_length + k]]])

\* speech.py line 471: np.log((frames**2).sum(axis=0)), the sum not floored
SfLogEnergy(frames) ==
    [t \in 1..Len(frames) |->
        LET e == SeqSum([n \in 1..Len(frames[t]) |-> frames[t][n] * frames[t][n]])
        IN [v |-> e, eps |-> FALSE, log |-> TRUE]]

\* speech.py lines 467-471: pre-emphasis, framing and the log energies
\* speech_features hands to vad_energy and returns as 'energy'
SfFrameEnergy(s, n_fft, hop_length, preemphasis) ==
    IF Len(s) = 0
    THEN Raise("IndexError", "index 0 is out of bounds for axis 0 with size 0")
    ELSE LET s1 == PreEmphasis([num |-> s, den |-> 1], preemphasis)
             fr == SfFrames(s1.num, n_fft, hop_length)
         IN IF fr.kind = "raise" THEN fr
            ELSE Return([energy |-> Some(SfLogEnergy(fr.value))])

EnergyArgs ==
    [op : {"stft", "sf_energy"},
     y : SeqsOf({0, 1}, 0, MaxSilentLen),
     n_fft : {1, 2},
     hop_length : {Some(1), Some(2)},
     center : {FALSE},
     preemphasis : {Some(0), Some(97)},
     energy : {"True", "log"}]

InitEnergy ==
    /\ pc = "call"
    /\ args \in EnergyArgs
    /\ loc = <<>>
    /\ ret = NoRet
    /\ vadMode = Float(VAD_MODE_STANDARD)

\* speech_features with get_energy or get_vad, up to line 471
SfEnergyStep ==
    /\ pc = "call"
    /\ args.op = "sf_energy"
    /\ ret' = SfFrameEnergy(args.y, args.n_fft, args.hop_length[1],
                            args.preemphasis[1])
    /\ pc' = "done"
    /\ UNCHANGED <<args, loc, vadMode>>

NextEnergy == CallStft \/ SfEnergyStep

SpecEnergy == InitEnergy /\ [][NextEnergy]_vars

(***************************************************************************)
(* signal.py: mel_filters, for band edges below 1000 Hz, where hz2mel and  *)
(* mel2hz are linear (lines 75 and 117) and the band edges are evenly      *)
(* spaced.  A frequency f is held as the integer 2 * MelScale * f.         *)
(***************************************************************************)
MaxMels == 3          \* most mel bands asked for

\* the divisor of linspace(0, sr / 2, 1 + n_fft // 2), lines 278-279
MelHalf(n_fft) == IF n_fft \div 2 = 0 THEN 1 ELSE n_fft \div 2

MelScale(n_fft, n_mels) == MelHalf(n_fft) * (n_mels + 1)

\* lines 271-272: fmax, doubled
MelFmax2(sr, fmax) == IF fmax = None THEN sr ELSE 2 * fmax[1]

\* lines 278-279: fftfreqs[k], k from 0
MelFftFreq(k, sr, n_fft, n_mels) ==
    IF n_fft \div 2 = 0 THEN 0 ELSE k * sr * (n_mels + 1)

\* lines 282-284: mel_f[j], j from 0
MelEdge(j, sr, n_fft, n_mels, fmin, fmax) ==
    (2 * fmin * (n_mels + 1) + j * (MelFmax2(sr, fmax) - 2 * fmin)) * MelHalf(n_fft)

\* line 286: fdiff, the same between any two neighbouring edges
MelFdiff(sr, n_fft, fmin, fmax) == (MelFmax2(sr, fmax) - 2 * fmin) * MelHalf(n_fft)

\* lines 289-295: max(0, min(lower, upper)) of filter i (from 1) at bin k,
\* times fdiff
MelRamp(i, k, sr, n_fft, n_mels, fmin, fmax) ==
    LET f == MelFftFreq(k, sr, n_fft, n_mels)
        lower == f - MelEdge(i - 1, sr, n_fft, n_mels, fmin, fmax)
        upper == MelEdge(i + 1, sr, n_fft, n_mels, fmin, fmax) - f
    IN IMax(0, IMin(lower, upper))

\* lines 289-299: the weights, each over fdiff * fdiff: the ramp over fdiff
\* times enorm = 2 / (mel_f[i+2] - mel_f[i])
MelWeights(sr, n_fft, n_mels, fmin, fmax) ==
    [i \in 1..n_mels |->
        [k1 \in 1..(1 + n_fft \div 2) |->
            2 * MelScale(n_fft, n_mels)
              * MelRamp(i, k1 - 1, sr, n_fft, n_mels, fmin, fmax)]]

\* line 302: not all((mel_f[:-2] == 0) | (weights.max(axis=1) > 0))
MelEmptyChannel(weights, sr, n_fft, n_mels, fmin, fmax) ==
    \E i \in 1..n_mels :
        /\ MelEdge(i - 1, sr, n_fft, n_mels, fmin, fmax) # 0
        /\ SeqMax(weights[i]) <= 0

\* mel_filters, lines 271-308: the matrix and whether the warning was printed
mel_filters(sr, n_fft, n_mels, fmin, fmax) ==
    LET weights == MelWeights(sr, n_fft, n_mels, fmin, fmax)
        fdiff == MelFdiff(sr, n_fft, fmin, fmax)
    IN [out |-> Return([weights |-> weights, den |-> fdiff * fdiff]),
        warned |-> MelEmptyChannel(weights, sr, n_fft, n_mels, fmin, fmax)]

MelArgs ==
    {a \in [op : {"mel_filters"},
            sr : {4, 8},
            n_fft : {2, 4, 8},
            n_mels : 1..MaxMels,
            fmin : {0, 1},
            fmax : {None, Some(2), Some(4)}] :
        2 * a.fmin < MelFmax2(a.sr, a.fmax)}

InitMel ==
    /\ pc = "call"
    /\ args \in MelArgs
    /\ loc = <<>>
    /\ ret = NoRet
    /\ vadMode = Float(VAD_MODE_STANDARD)

CallMelFilters ==
    /\ pc = "call"
    /\ args.op = "mel_filters"
    /\ LET r == mel_filters(args.sr, args.n_fft, args.n_mels, args.fmin, args.fmax)
       IN /\ ret' = r.out
          /\ loc' = [warned |-> r.warned]
    /\ pc' = "done"
    /\ UNCHANGED <<args, vadMode>>

NextMel == CallMelFilters

SpecMel == InitMel /\ [][NextMel]_vars

(***************************************************************************)
(* signal.py: the functions under @cache_memory (dct_filters, mel_filters, *)
(* get_window), called by concurrent workers that share memory.  The       *)
(* decorator is the fallback of lines 32-33, which caches nothing, or the  *)
(* one of odin.utils, a map from the parameter tuple to the result, filled *)
(* when absent.  A result is an array [owner, value]: owner is 0 for an    *)
(* array the body has made, and w for the window array of worker w, whose  *)
(* value is read from loc.own[w] when the result is handed out.            *)
(***************************************************************************)
Workers == {1, 2}

\* dct_filters(n_filters, n_input), lines 223-230.  An entry is
\* cos(turn * pi / (2 * n_input)) * sqrt(scale[1] / scale[2]).
DctBasis(n_filters, n_input) ==
    [i \in 1..n_filters |->
        [k \in 1..n_input |->
            IF i = 1 THEN [turn |-> 0, scale |-> <<1, n_input>>]
            ELSE [turn |-> ((i - 1) * (2 * k - 1)) % (4 * n_input),
                  scale |-> <<2, n_input>>]]]

\* the calls of the cached functions: the name and the arguments.  A window
\* is a name, a callable (np.ones), the ndarray of a worker, or a dict
CacheCalls ==
    {[fn |-> "mel_filters", p |-> <<8, n_fft, 1, 0, 4>>] : n_fft \in {2, 4}}
    \cup {[fn |-> "dct_filters", p |-> <<2, 2>>]}
    \cup {[fn |-> "get_window", p |-> <<window, 2, TRUE>>] :
             window \in {[kind |-> "name", name |-> "hann", owner |-> 0],
                         [kind |-> "callable", name |-> "np.ones", owner |-> 0],
                         [kind |-> "dict", name |-> "{}", owner |-> 0]}
                        \cup {[kind |-> "ndarray", name |-> "", owner |-> w] : w \in Workers}}
    \cup {[fn |-> "get_window", p |-> <<[kind |-> "ndarray", name |-> "", owner |-> 1], 4, TRUE>>]}

\* the body of the function a call names, run on the call's arguments;
\* get_window is lines 313-324: np.asarray(window) is the caller's ndarray
\* itself, not a copy
CacheCompute(call, own) ==
    IF call.fn = "mel_filters"
    THEN Return([owner |-> 0,
                 value |-> mel_filters(call.p[1], call.p[2], call.p[3], call.p[4],
                                       Some(call.p[5])).out.value])
    ELSE IF call.fn = "dct_filters"
    THEN Return([owner |-> 0, value |-> DctBasis(call.p[1], call.p[2])])
    ELSE LET window == call.p[1]
             Nx == call.p[2]
         IN IF window.kind = "callable"
            THEN Return([owner |-> 0, value |-> [i \in 1..Nx |-> 2]])
            ELSE IF window.kind = "name"
            THEN Return([owner |-> 0, value |-> Hann2(Nx)])
            ELSE IF window.kind = "ndarray"
            THEN IF Len(own[window.owner]) = Nx
                 THEN Return([owner |-> window.owner, value |-> own[window.owner]])
                 ELSE Raise("ValueError", "Window size mismatch")
            ELSE Raise("ValueError", "Invalid window specification")

InitCache ==
    /\ pc = [w \in Workers |-> "idle"]
    /\ args = [w \in Workers |-> None]
    /\ ret = [w \in Workers |-> NoRet]
    /\ \E cached \in BOOLEAN :
          loc = [cached |-> cached,
                 cache |-> <<>>,
                 own |-> [w \in Workers |-> <<2, 2>>],
                 how |-> [w \in Workers |-> "none"]]
    /\ vadMode = Float(VAD_MODE_STANDARD)

\* a worker calls a decorated function: the cache is looked up, and a result
\* found there is handed out as it is now
CachedCall(w) ==
    /\ pc[w] = "idle"
    /\ \E call \in CacheCalls :
          LET window == call.p[1]
              \* the parameter tuple, by which the cache is keyed: an ndarray
              \* counts by its value
              key == IF call.fn = "get_window"
                     THEN [call EXCEPT !.p[1] =
                              [kind |-> window.kind, name |-> window.name,
                               value |-> IF window.kind = "ndarray"
                                         THEN loc.own[window.owner] ELSE <<>>]]
                     ELSE call
          IN /\ args' = [args EXCEPT ![w] = [call |-> call, key |-> key]]
             /\ IF loc.cached /\ key \in DOMAIN loc.cache
                THEN LET e == loc.cache[key]
                     IN /\ ret' = [ret EXCEPT ![w] =
                                      Return(IF e.owner = 0 THEN e.value
                                             ELSE loc.own[e.owner])]
                        /\ pc' = [pc EXCEPT ![w] = "done"]
                        /\ loc' = [loc EXCEPT !.how[w] = "hit"]
                ELSE /\ ret' = ret
                     /\ pc' = [pc EXCEPT ![w] = "miss"]
                     /\ loc' = loc
    /\ UNCHANGED vadMode

\* the function's body runs; the result is stored if the key is still
\* absent, and an exception is not stored
CacheMiss(w) ==
    /\ pc[w] = "miss"
    /\ LET r == CacheCompute(args[w].call, loc.own)
       IN IF r.kind = "raise"
          THEN /\ ret' = [ret EXCEPT ![w] = r]
               /\ loc' = [loc EXCEPT !.how[w] = "raised"]
          ELSE /\ ret' = [ret EXCEPT ![w] = Return(r.value.value)]
               /\ loc' = [loc EXCEPT
                            !.how[w] = "computed",
                            !.cache = IF loc.cached /\ args[w].key \notin DOMAIN @
                                      THEN [k \in DOMAIN @ \cup {args[w].key} |->
                                               IF k = args[w].key THEN r.value ELSE @[k]]
                                      ELSE @]
    /\ pc' = [pc EXCEPT ![w] = "done"]
    /\ UNCHANGED <<args, vadMode>>

\* the caller takes the result; the worker is free for its next call
CacheResume(w) ==
    /\ pc[w] = "done"
    /\ pc' = [pc EXCEPT ![w] = "idle"]
    /\ ret' = [ret EXCEPT ![w] = NoRet]
    /\ args' = [args EXCEPT ![w] = None]
    /\ loc' = [loc EXCEPT !.how[w] = "none"]
    /\ UNCHANGED vadMode

\* between its calls a worker writes other values into its own window
\* array; nothing keeps the write from a call of another worker that was
\* given the array and is running
WriteWindow(w) ==
    /\ pc[w] = "idle"
    /\ \E value \in {<<2, 2>>, <<0, 2>>} :
          /\ value # loc.own[w]
          /\ loc' = [loc EXCEPT !.own[w] = value]
    /\ UNCHANGED <<pc, args, ret, vadMode>>

NextCache ==
    \E w \in Workers :
        \/ CachedCall(w)
        \/ CacheMiss(w)
        \/ CacheResume(w)
        \/ WriteWindow(w)

SpecCache == InitCache /\ [][NextCache]_vars




(***************************************************************************)
(* Claims about segment_axis                                               *)
(***************************************************************************)
SegDone == pc = "done" /\ args.op = "segment_axis"
SegInvalidParameter ==
    /\ Raised
    /\ ret.exc = "ValueError"
    /\ ret.msg \in {"frames cannot overlap by more than 100%",
                    "overlap must be nonnegative and length must be positive"}

\* C1: with end='cut' and a 1-D signal of length L >= frame_length (and
\* 1 <= hop_length <= frame_length), segment_axis returns exactly
\* 1 + floor((L - frame_length) / hop_length) frames, frame i holds the
\* samples i*hop_length .. i*hop_length + frame_length - 1 of the signal in
\* order, and the trailing samples that fill no frame are dropped.
C1_CutFrames ==
    (/\ SegDone
     /\ args.end = "cut"
     /\ args.frame_length >= 1
     /\ args.hop_length >= 1
     /\ args.hop_length <= args.frame_length
     /\ Len(args.a) >= args.frame_length)
    => /\ Returned
       /\ Len(ret.value) = 1 + (Len(args.a) - args.frame_length) \div args.hop_length
       /\ \A i \in 1..Len(ret.value) :
            /\ Len(ret.value[i]) = args.frame_length
            /\ \A j \in 1..args.frame_length :
                 ret.value[i][j] = args.a[(i - 1) * args.hop_length + j]
       /\ (Len(ret.value) - 1) * args.hop_length + args.frame_length <= Len(args.a)
       /\ Len(ret.value) * args.hop_length + args.frame_length > Len(args.a)

C1_Witness ==
    /\ SegDone
    /\ Returned
    /\ args.end = "cut"
    /\ args.frame_length = 3
    /\ args.hop_length = 2
    /\ Len(args.a) = 6
    /\ Len(ret.value) = 2

\* C10 as stated: every call with frame_length <= 0 or without
\* 0 <= hop_length < frame_length fails with an invalid-parameter error, and
\* every returned frame matrix was made with frame_length > hop_length >= 1.
C10_Original ==
    SegDone =>
        /\ (args.frame_length <= 0
            \/ ~(0 <= args.hop_length /\ args.hop_length < args.frame_length))
           => SegInvalidParameter
        /\ Returned => (args.frame_length > args.hop_length /\ args.hop_length >= 1)

\* C10 amended: every call with frame_length <= 0 or without
\* 1 <= hop_length <= frame_length fails with an invalid-parameter error, no
\* other call does, and every returned frame matrix was made with
\* frame_length >= hop_length >= 1 (hop_length = frame_length is accepted).
C10_Amended ==
    SegDone =>
        /\ (args.frame_length <= 0
            \/ ~(1 <= args.hop_length /\ args.hop_length <= args.frame_length))
           <=> SegInvalidParameter
        /\ Returned => (args.frame_length >= args.hop_length /\ args.hop_length >= 1)

C10_Witness ==
    /\ SegDone
    /\ args.frame_length = 2
    /\ args.hop_length = 3
    /\ Len(args.a) = 5
    /\ SegInvalidParameter

SegValidParams ==
    /\ args.frame_length >= 1
    /\ args.hop_length >= 1
    /\ args.hop_length <= args.frame_length

\* C11: with end='cut', segment_axis fails with the insufficient-data error
\* (the ValueError 'Not enough data points to segment array'), and with no
\* other kind of failure, for every signal shorter than frame_length,
\* including the empty signal.
C11_InsufficientData ==
    (SegDone /\ SegValidParams /\ args.end = "cut"
     /\ Len(args.a) < args.frame_length)
    => /\ Raised
       /\ ret.exc = "ValueError"
       /\ ret.msg = "Not enough data points to segment array"

\* the smallest length >= max(L, frame_length) that frames fill exactly
SegExtendedLen(L, fl, hop) ==
    IF L <= fl THEN fl
    ELSE fl + ((L - fl + hop - 1) \div hop) * hop

\* the array the returned frames were cut from
SegFlat(frames, hop) ==
    LET n == Len(frames)
        fl == Len(frames[1])
        frameOf(t) == IMin(n, 1 + (t - 1) \div hop)
    IN [t \in 1..(fl + hop * (n - 1)) |->
          frames[frameOf(t)][t - (frameOf(t) - 1) * hop]]

\* the k samples added to a: the pad value, or the signal wrapped from its
\* start
SegAdded(a, k, end, endvalue) ==
    [i \in 1..k |-> IF end = "pad" THEN endvalue
                    ELSE a[((i - 1) % Len(a)) + 1]]

SegPadWrapCase ==
    /\ SegDone
    /\ SegValidParams
    /\ args.end \in {"pad", "wrap"}
    /\ Len(args.a) >= 1

\* C12: with end='pad' or end='wrap' and any 1-D signal of length L >= 1
\* (including L < frame_length), segment_axis succeeds and returns exactly
\* 1 + (L' - frame_length) / hop_length frames, L' the smallest length
\* >= max(L, frame_length) with (L' - frame_length) a multiple of hop_length;
\* no input sample is dropped and the L' - L added samples are the pad value
\* (pad) or copies of the signal's first samples (wrap), on either side.
C12_PadWrapFrames ==
    SegPadWrapCase =>
        LET L == Len(args.a)
            Lx == SegExtendedLen(L, args.frame_length, args.hop_length)
            added == SegAdded(args.a, Lx - L, args.end, args.endvalue)
        IN /\ Returned
           /\ Len(ret.value) = 1 + (Lx - args.frame_length) \div args.hop_length
           /\ SegFlat(ret.value, args.hop_length) \in {args.a \o added, added \o args.a}

\* C13: in segment_axis with end='pad' or 'wrap', endmode='pre' places the
\* added samples at the beginning of the array (the original samples follow)
\* and endmode='post' places them at the end (the original samples come
\* first), so that with the default 'post' the final frame is completed.
C13_EndmodePlacement ==
    (SegPadWrapCase /\ Returned) =>
        LET L == Len(args.a)
            flat == SegFlat(ret.value, args.hop_length)
            added == SegAdded(args.a, Len(flat) - L, args.end, args.endvalue)
        IN /\ args.endmode = "pre" => flat = added \o args.a
           /\ args.endmode = "post" => flat = args.a \o added

\* C14: segment_axis called with an edge policy other than 'cut', 'pad' or
\* 'wrap' fails with an unsupported-configuration error for every signal
\* length, including lengths that divide evenly into frames, and never
\* returns a frame matrix.
C14_UnknownEndRejected ==
    (SegDone /\ SegValidParams /\ args.end \notin {"cut", "pad", "wrap"})
    => /\ Raised
       /\ ret.exc = "ValueError"

(***************************************************************************)
(* Claims about power2db and compute_delta                                 *)
(***************************************************************************)
P2dDone == pc = "done" /\ args.op = "power2db"
DeltaDone == pc = "done" /\ args.op = "compute_delta"

\* the unclipped value of element i, as the claim writes it:
\* 10*log10(max(amin, |S|)) - 10*log10(max(amin, |ref|))
C8_RefValue ==
    IF args.ref.callable
    THEN NumArrayMax([i \in 1..Len(args.S) |-> NumAbs(args.S[i])])
    ELSE NumAbs(args.ref.value)
C8_Raw ==
    [i \in 1..Len(args.S) |->
        TenLog10(NumMaximum(args.amin, NumAbs(args.S[i])))
        - TenLog10(NumMaximum(args.amin, C8_RefValue))]

\* C8: with a non-null top_db >= 0 every element returned by power2db is
\* max(raw, max(raw) - top_db); so max(output) - min(output) <= top_db,
\* max(output) is the unclipped maximum and elements at or above
\* max - top_db are unchanged.  With top_db = None nothing is clipped.
C8_Clipping ==
    (P2dDone /\ Returned) =>
        /\ Len(ret.value) = Len(args.S)
        /\ args.top_db = None => ret.value = C8_Raw
        /\ (args.top_db # None /\ Len(args.S) > 0) =>
              /\ args.top_db[1] >= 0
              /\ \A i \in 1..Len(args.S) :
                    /\ ret.value[i] = IMax(C8_Raw[i], SeqMax(C8_Raw) - args.top_db[1])
                    /\ C8_Raw[i] >= SeqMax(C8_Raw) - args.top_db[1]
                          => ret.value[i] = C8_Raw[i]
              /\ SeqMax(ret.value) - SeqMin(ret.value) <= args.top_db[1]
              /\ SeqMax(ret.value) = SeqMax(C8_Raw)

C8_Witness ==
    /\ P2dDone
    /\ Returned
    /\ args.top_db = Some(25)
    /\ args.S = <<Num(1, 30), Num(1, -120)>>
    /\ args.ref = Scalar(Num(1, 0))
    /\ args.amin = Num(1, -100)
    /\ ret.value = <<30, 5>>

C9_DeltaParamsValid ==
    /\ args.width >= 3
    /\ args.width % 2 = 1
    /\ args.order.type = "int"
    /\ args.order.val >= 1
C9_P2dParamsValid ==
    /\ args.amin.sgn > 0
    /\ (args.top_db = None \/ args.top_db[1] >= 0)

\* the invalid-parameter errors of compute_delta (lines 414-418) and of
\* power2db (lines 161-162, 173-174)
DeltaInvalidParameter ==
    /\ Raised
    /\ ret.exc = "ValueError"
    /\ ret.msg \in {"width must be an odd integer >= 3", "order must be a positive integer"}
P2dInvalidParameter ==
    /\ Raised
    /\ ret.exc = "ValueError"
    /\ ret.msg \in {"amin must be strictly positive", "top_db must be non-negative"}

\* C9: compute_delta ends in its invalid-parameter error, and returns
\* nothing, when width is even or < 3 or order is not a positive integer;
\* power2db does when amin <= 0 or top_db is non-null and negative.  No call
\* with valid parameters ends in an invalid-parameter error.
C9_InvalidParametersRejected ==
    /\ DeltaDone => (~C9_DeltaParamsValid <=> DeltaInvalidParameter)
    /\ P2dDone => (~C9_P2dParamsValid <=> P2dInvalidParameter)

\* C15: in every call that ends in an invalid-parameter error, the error is
\* raised before any computation step of that call: no logarithm is taken
\* and no caller-supplied callable (power2db's ref) is invoked before the
\* rejection.  Stated for power2db, whose steps the call records.
C15_RejectedBeforeComputing ==
    (P2dDone /\ P2dInvalidParameter) => loc.steps = <<>>

DeltaValidCall ==
    /\ DeltaDone
    /\ C9_DeltaParamsValid
    /\ Len(args.data) >= 1
    /\ args.trim

\* C16: for any data with T >= 1 entries along the chosen axis, any odd
\* width >= 3 and any integer order >= 1, compute_delta with trim=True
\* returns a list of exactly `order` arrays, each with the shape of the input.
C16_OrderArraysOfInputShape ==
    DeltaValidCall =>
        /\ Returned
        /\ Len(ret.value) = args.order.val
        /\ \A n \in 1..Len(ret.value) : Len(ret.value[n].num) = Len(args.data)

C16_Witness ==
    /\ DeltaValidCall
    /\ Returned
    /\ args.width = 5
    /\ Len(args.data) = 3
    /\ Len(ret.value) = 2
    /\ Len(ret.value[2].num) = 3

\* the numerator of the n-times-iterated regression of half-width m centred
\* on index k of the edge-replicated input x
RECURSIVE DeltaCentred(_, _, _, _)
DeltaCentred(x, m, n, k) ==
    IF n = 0 THEN x[IMin(IMax(k, 1), Len(x))]
    ELSE SeqSum([j \in 1..(2 * m + 1) |->
                    (j - m - 1) * DeltaCentred(x, m, n - 1, k + j - m - 1)])

\* C17: for every order n in 1..order, index i of the n-th array returned by
\* compute_delta (trim=True) is the n-times-iterated regression centred on
\* input index i of the edge-replicated input, not shifted relative to it.
C17_AlignedWithInput ==
    (DeltaValidCall /\ Returned) =>
        \A n \in 1..Len(ret.value) : \A i \in 1..Len(ret.value[n].num) :
            ret.value[n].num[i]
                = DeltaCentred(args.data, (args.width - 1) \div 2, n, i)

\* the sum of the squares of m, m-1, ..., -m for m = (width-1)/2
C18_SumOfSquares ==
    LET m == (args.width - 1) \div 2
    IN SeqSum([j \in 1..args.width |-> (m - j + 1) * (m - j + 1)])

\* the kernel has width taps proportional to m, m-1, ..., -m
C18_Taps ==
    LET m == (args.width - 1) \div 2
        w == DeltaTaps(args.width)
    IN /\ Len(w) = args.width
       /\ \A j \in 1..Len(w) : w[j] = m - (j - 1)

\* C18 as stated: the kernel has width taps proportional to m, m-1, ..., -m
\* and after normalization the sum of the squares of its taps is 1 (the taps
\* being divided by DeltaScale, their squares sum to 1 iff the squares of
\* m..-m sum to DeltaScale squared).
C18_Original ==
    (DeltaDone /\ C9_DeltaParamsValid) =>
        /\ C18_Taps
        /\ C18_SumOfSquares = DeltaScale(args.width) * DeltaScale(args.width)

\* C18 amended: the kernel has width taps, the values m, m-1, ..., -m divided
\* by the sum of their squares, so that the kernel's response to a unit
\* slope is 1 and the squares of its taps sum to 1 / (sum of the squares of
\* m..-m), not to 1; every value of the first returned array is over that
\* sum.
C18_Amended ==
    (DeltaDone /\ C9_DeltaParamsValid) =>
        /\ C18_Taps
        /\ DeltaScale(args.width) = C18_SumOfSquares
        /\ Returned => ret.value[1].den = C18_SumOfSquares

C18_Witness ==
    /\ DeltaDone
    /\ Returned
    /\ args.width = 5
    /\ ret.value[1].den = 10

\* the first order asked for with trim=True, and returned
DeltaFirstOrder ==
    /\ DeltaValidCall
    /\ Returned

\* sum over k = -m..m of k * x[clamp(i + k, 1, T)]
C26_Regression(x, m, i) ==
    SeqSum([j \in 1..(2 * m + 1) |->
               (j - m - 1) * x[IMin(IMax(i + j - m - 1, 1), Len(x))]])

\* sum over k = -m..m of k * k
C26_Norm(m) == SeqSum([j \in 1..(2 * m + 1) |-> (j - m - 1) * (j - m - 1)])

\* the input is a linear ramp of slope s
C26_Ramp(x, s) == \A j \in 1..(Len(x) - 1) : x[j + 1] - x[j] = s

\* C26: for order 1 and trim=True, compute_delta's output at index i equals
\* (sum over k = -m..m of k * x[clamp(i + k)]) / (sum over k = -m..m of k*k)
\* with m = (width-1)/2, for every i; in particular a linear ramp of slope s
\* gives s at every index at distance >= m from both ends.
C26_FirstOrderRegression ==
    DeltaFirstOrder =>
        LET m == (args.width - 1) \div 2
            x == args.data
            d == ret.value[1]
        IN /\ d.den = C26_Norm(m)
           /\ \A i \in 1..Len(x) : d.num[i] = C26_Regression(x, m, i)
           /\ \A s \in -2..2 :
                 C26_Ramp(x, s) =>
                    \A i \in (1 + m)..(Len(x) - m) : d.num[i] = s * d.den

C26_Witness ==
    /\ DeltaFirstOrder
    /\ args.width = 3
    /\ args.data = <<0, 1, 2>>
    /\ ret.value[1].num = <<1, 2, 1>>
    /\ ret.value[1].den = 2

\* the input is constant along the axis
DeltaConstantInput == \A j \in 1..Len(args.data) : args.data[j] = args.data[1]

\* C27: for an input that is constant along the chosen axis, every array
\* returned by compute_delta (trim=True) is identically zero, for every odd
\* width >= 3 and every order >= 1: the zero-state start-up of the causal
\* filter never reaches the trimmed region.
C27_ConstantGivesZero ==
    (DeltaFirstOrder /\ DeltaConstantInput) =>
        \A n \in 1..Len(ret.value) : \A i \in 1..Len(ret.value[n].num) :
            ret.value[n].num[i] = 0

(***************************************************************************)
(* Claims about vad_energy (signal.py)                                     *)
(***************************************************************************)
VadDone == pc = "done" /\ args.op = "vad_energy"
VadFellBack == VadDone /\ Returned /\ ret.value.world = None
VadFitted == VadDone /\ Returned /\ ret.value.world # None

\* C4: when world.fit fails with ValueError or IndexError, vad_energy
\* retries with K-1 components while K-1 >= 2 and otherwise returns an
\* all-zero label array with one entry per frame and threshold 0.  From any
\* K >= 2 it makes at most K-1 fit attempts, the attempts use K, K-1, ...
\* components and never fewer than 2, the call always comes to its end (a
\* pending fit can always step, and each failed fit lowers K), and the fit
\* error never reaches the caller.
C4_RetryFallback ==
    (args.op = "vad_energy" /\ pc \in {"fit", "done"}) =>
        /\ Len(loc.fits) <= args.distrib_nb - 1
        /\ \A i \in 1..Len(loc.fits) :
              loc.fits[i] = args.distrib_nb - (i - 1) /\ loc.fits[i] >= 2
        /\ pc = "fit" =>
              /\ loc.distrib_nb = args.distrib_nb - Len(loc.fits)
              /\ loc.distrib_nb >= 2
              /\ ENABLED NextVad          \* the call is never stuck
        /\ pc = "done" =>
              /\ Returned
              /\ Len(ret.value.label) = Len(args.log_energy)
              /\ ret.value.world = None =>
                    /\ \A i \in 1..Len(ret.value.label) : ret.value.label[i] = 0
                    /\ ret.value.threshold = 0
                    /\ loc.fits[Len(loc.fits)] = 2
                    /\ Len(loc.fits) = args.distrib_nb - 1

C4_Witness ==
    /\ VadFellBack
    /\ args.distrib_nb = 3
    /\ loc.fits = <<3, 2>>
    /\ ret.value.label = <<0, 0, 0>>

SpeechCount(label) == SeqSum(label)
C6_Alphas == VAD_MODE_STRICT..VAD_MODE_SENSITIVE
C6_CountAt(alpha) ==
    SpeechCount(VadLabel(loc.log_energy.v, VadThreshold(ret.value.world, alpha)))

\* C6 as stated: for fixed normalized log-energy and a fixed fitted
\* mixture, a larger alpha within [1.2, 2.4] never gives more frames
\* labelled speech.
C6_Original ==
    (VadFitted /\ ~vadMode.nan /\ vadMode.v \in C6_Alphas) =>
        \A alpha \in C6_Alphas :
            alpha >= vadMode.v => C6_CountAt(alpha) <= SpeechCount(ret.value.label)

\* C6 amended: for fixed normalized log-energy and a fixed fitted mixture,
\* a larger alpha within [1.2, 2.4] never gives fewer frames labelled
\* speech: the threshold (largest mean) - alpha * sqrt(1 / its precision)
\* moves down as alpha grows, and a frame is speech iff its normalized
\* log-energy is greater than the threshold.
C6_Amended ==
    (VadFitted /\ ~vadMode.nan /\ vadMode.v \in C6_Alphas) =>
        /\ ret.value.threshold
              = SeqMax(ret.value.world.means)
                - vadMode.v * VadSigma(ret.value.world.precisions[ArgMax(ret.value.world.means)])
        /\ \A i \in 1..Len(ret.value.label) :
              ret.value.label[i] = 1
                 <=> VadGreater(loc.log_energy.v, i, ret.value.threshold)
        /\ \A alpha \in C6_Alphas :
              /\ alpha >= vadMode.v => C6_CountAt(alpha) >= SpeechCount(ret.value.label)
              /\ alpha <= vadMode.v => C6_CountAt(alpha) <= SpeechCount(ret.value.label)

C6_Witness ==
    /\ VadFitted
    /\ vadMode = Float(VAD_MODE_STRICT)
    /\ C6_CountAt(VAD_MODE_SENSITIVE) > SpeechCount(ret.value.label)

\* the mode is a number within [1.0, 2.4]
C19_InRange == ~vadMode.nan /\ 10 <= vadMode.v /\ vadMode.v <= 24

\* a vad_energy call that fitted used the mode stored at the time of the call
C19_CallUsesStored ==
    VadFitted =>
        IF vadMode.nan THEN ret.value.threshold = NaN
        ELSE ret.value.threshold
                = SeqMax(ret.value.world.means)
                  - vadMode.v * VadSigma(ret.value.world.precisions[ArgMax(ret.value.world.means)])

\* only set_vad_mode, between two calls of vad_energy, changes the mode
C19_OnlySetChanges == (pc # "idle" \/ pc' # "idle") => vadMode' = vadMode

\* C19: the module-level VAD sensitivity starts at 2.0 (standard) and lies in
\* [1.0, 2.4] after any sequence of set_vad_mode calls: a numeric argument is
\* clamped into [1.0, 2.4] and stored, a non-numeric argument leaves the
\* stored value unchanged, and each vad_energy call uses the value stored at
\* the time of that call.
C19_ClampedMode ==
    /\ vadMode = Float(VAD_MODE_STANDARD)
    /\ [](C19_InRange /\ C19_CallUsesStored)
    /\ [][C19_OnlySetChanges]_vars

\* what the code does keep: the stored mode starts at 2.0 and is in [1.0, 2.4]
\* or NaN (a NaN argument is numeric and min/max of lines 466 store it as it
\* is), a non-numeric argument leaves it unchanged, and each vad_energy call
\* uses the value stored at the time of that call
VadModeStoredOrNaN ==
    /\ vadMode = Float(VAD_MODE_STANDARD)
    /\ []((vadMode.nan \/ C19_InRange) /\ C19_CallUsesStored)
    /\ [][C19_OnlySetChanges]_vars

\* a call that used the mode 1.0, which set_vad_mode(0.5) stored
VadCalledAtFloor ==
    /\ VadFitted
    /\ vadMode = Float(10)
    /\ SpeechCount(ret.value.label) > 0

\* C20: every successful VAD fit performs exactly nb_train_it EM iterations,
\* each an E-step followed by an M-step on the same mixture, with no
\* convergence-based early stop.
C20_ExactIterations == VadFitted => loc.n_iter = args.nb_train_it

(***************************************************************************)
(* Claims about stft and istft                                             *)
(***************************************************************************)
IstftDone == pc = "done" /\ args.op = "stft"

ArgHop == IF args.hop_length = None THEN args.n_fft \div 4 ELSE args.hop_length[1]

\* center=False, the Hann window, hop_length = n_fft / 4, no pre-emphasis
C7_Case ==
    /\ IstftDone
    /\ ~args.center
    /\ 4 * ArgHop = args.n_fft
    /\ args.preemphasis = None

\* C7: for center=False, a Hann window and hop_length = n_fft/4,
\* istft(stft(y)) reproduces y at every sample except the first and last
\* n_fft samples (here exactly, the arithmetic of the model being exact), and
\* the reconstructed signal has length n_fft + hop_length * (num_frames - 1),
\* which is at most len(y) and more than len(y) - hop_length.
C7_RoundTrip ==
    C7_Case =>
        /\ Returned
        /\ Len(ret.value) = args.n_fft + ArgHop * (Len(loc.stft.matrix) - 1)
        /\ Len(ret.value) <= Len(args.y)
        /\ Len(ret.value) > Len(args.y) - ArgHop
        /\ \A t \in (args.n_fft + 1)..(Len(args.y) - args.n_fft) :
              /\ t <= Len(ret.value)
              /\ ret.value[t].num = args.y[t] * ret.value[t].den

\* a signal of nine samples whose middle sample is given back, and whose
\* first sample, under a zero of the window, is not
C7_Witness ==
    /\ C7_Case
    /\ Returned
    /\ Len(args.y) = 2 * args.n_fft + 1
    /\ ret.value[args.n_fft + 1].num = args.y[args.n_fft + 1] * ret.value[args.n_fft + 1].den
    /\ ret.value[1].num # args.y[1] * ret.value[1].den


(***************************************************************************)
(* Claims about speech_features, spectra and the frame count               *)
(***************************************************************************)
SfDone == pc = "done" /\ args.op = "speech_features"
SpectraDone == pc = "done" /\ args.op = "spectra"
StftDone == pc = "stft_done" /\ args.op = "stft"

\* speech_features got as far as the frame energies
SfStarted == SfDone /\ "vad_failed" \in DOMAIN loc

\* 1 + floor((len - n_fft) / hop_length)
FrameCount(len, n_fft, hop_length) == 1 + (len - n_fft) \div hop_length

\* the streams of the mapping that are transposed arrays, and their flags
SfArrayStreams == {"spec", "mspec", "mfcc", "pitch", "energy"}
SfRequested(k) ==
    IF k = "spec" THEN args.get_spec
    ELSE IF k = "mspec" THEN args.get_mspec
    ELSE IF k = "mfcc" THEN args.get_mfcc
    ELSE IF k = "pitch" THEN args.get_pitch
    ELSE IF k = "energy" THEN args.get_energy
    ELSE args.get_vad.truthy

\* the call has no other reason to fail: the signal holds a frame, the hop
\* is positive, nb_delta is an integer and the mixture fit ended
SfValidCall ==
    /\ SfStarted
    /\ LibrosaFrame(loc.len, loc.n_fft, loc.hop_length).kind = "return"
    /\ args.nb_delta.type = "int"
    /\ ~loc.vad_failed

\* C2: for every combination of the get_* flags, speech_features returns a
\* mapping with the six names in which every stream that was not requested is
\* None and every requested stream is an array; not requesting a stream never
\* makes the call fail.
C2_UnrequestedIsNone ==
    SfValidCall =>
        /\ Returned
        /\ DOMAIN ret.value = SfArrayStreams \cup {"vad"}
        /\ \A k \in DOMAIN ret.value : (ret.value[k] # None) <=> SfRequested(k)

C3_Stft ==
    (StftDone /\ Returned /\ ~args.center) =>
        LET n == FrameCount(Len(args.y), args.n_fft, ArgHop)
        IN /\ Len(ret.value.matrix) = n
           /\ ret.value.energy # None => Len(ret.value.energy[1]) = n

C3_Spectra ==
    (SpectraDone /\ Returned /\ args.y # None) =>
        \A k \in DOMAIN ret.value :
            ret.value[k][1] = FrameCount(Len(args.y[1]), args.n_fft, ArgHop)

C3_SpeechFeatures ==
    (SfDone /\ Returned) =>
        \A k \in DOMAIN ret.value :
            ret.value[k] # None =>
                ret.value[k][1] = FrameCount(loc.len, loc.n_fft, loc.hop_length)

\* C3: for one input signal and one (n_fft, hop_length), every per-frame
\* output has the same number of frames, 1 + floor((len - n_fft) / hop_length):
\* the STFT matrix and the energy vector returned by stft (center=False), the
\* spec / mspec / mfcc streams of spectra, and every non-None stream of
\* speech_features including vad, with or without delta features appended.
C3_SameFrameCount == C3_Stft /\ C3_Spectra /\ C3_SpeechFeatures

\* speech_features returns six streams of three frames, vad among them,
\* with the deltas of order 2 appended
C3_Witness ==
    /\ SfDone
    /\ Returned
    /\ args.nb_delta.val = 2
    /\ ret.value.vad = <<3>>
    /\ ret.value.mfcc = <<3, 3 * args.nb_ceps>>
    /\ ret.value.energy = <<3, 3>>

\* C5: in speech_features with get_vad set, a numerical failure of the VAD
\* mixture fit never aborts the call: the VAD falls back to fewer components
\* or to an all-non-speech label, and the other requested feature streams are
\* still returned.
C5_VadFailureNeverAborts ==
    (SfStarted /\ args.get_vad.truthy /\ loc.vad_failed) =>
        /\ Returned
        /\ ret.value.vad # None
        /\ \A k \in SfArrayStreams : SfRequested(k) => ret.value[k] # None

\* sr_new when resampling to a different rate was requested, sr otherwise
SfEffectiveRate ==
    IF args.sr_new # None /\ args.sr_new[1] # args.sr THEN args.sr_new[1]
    ELSE args.sr

\* floor(ms * sr / 1000) for ms a fraction
SamplesOfMilliseconds(ms, sr) == (ms.num * sr) \div (ms.den * 1000)

\* C21: speech_features converts the window and shift given in milliseconds
\* to sample counts with the effective sample rate: n_fft = win_ms * sr_eff /
\* 1000 and hop_length = shift_ms * sr_eff / 1000, where sr_eff is sr_new when
\* resampling to a different rate was requested and sr otherwise.
C21_MillisecondsToSamples ==
    SfStarted =>
        /\ loc.sr = SfEffectiveRate
        /\ loc.n_fft = SamplesOfMilliseconds(args.win, SfEffectiveRate)
        /\ loc.hop_length = SamplesOfMilliseconds(args.shift, SfEffectiveRate)

\* fmin >= fmax for the bounds the call was given (fmax defaults to half of
\* the sample rate)
SfBoundsInverted ==
    /\ SfDone
    /\ args.fmin # None
    /\ args.fmin[1] >= (IF args.fmax = None THEN SfEffectiveRate \div 2
                        ELSE args.fmax[1])
SpectraBoundsInverted ==
    /\ SpectraDone
    /\ args.fmin >= SpectraFmax(args.sr, args.fmax)

\* C22: every entry point that takes frequency bounds (spectra and
\* speech_features) fails with an invalid-parameter error when fmin >= fmax
\* and returns no feature stream; it never silently replaces the bounds and
\* continues.
C22_InvertedBoundsRejected ==
    (SfBoundsInverted \/ SpectraBoundsInverted) => Raised


\* spectra was given S, bounds with fmin < fmax and a top_db >= 0
SpectraOfGivenS ==
    /\ SpectraDone
    /\ args.S # None
    /\ ~SpectraBoundsInverted
    /\ args.top_db # None /\ args.top_db[1] >= 0

\* C24: spectra accepts, as S, either a complex STFT matrix or a real-valued
\* (power) spectrogram, and in both cases returns a result containing 'spec',
\* plus 'mspec' iff nb_melfilters is given and 'mfcc' iff nb_ceps is given.
C24_ComplexOrRealS ==
    SpectraOfGivenS =>
        /\ Returned
        /\ DOMAIN ret.value
              = {"spec"}
                \cup (IF args.nb_melfilters # None THEN {"mspec"} ELSE {})
                \cup (IF args.nb_ceps # None THEN {"mfcc"} ELSE {})


(***************************************************************************)
(* Claims about the frame energies                                         *)
(***************************************************************************)
\* an energy value is finite: it is not the logarithm of zero
EnergyFinite(e) == ~(e.log /\ e.v = 0 /\ ~e.eps)

\* a call that returned frame energies
EnergyReturned ==
    /\ pc \in {"stft_done", "done"}
    /\ Returned
    /\ ret.value.energy # None

\* C30: every per-frame energy or log-energy value produced by the pipeline
\* is finite, including for frames whose samples are all zero: a zero frame
\* energy is replaced by a positive epsilon before the logarithm is taken,
\* both in stft(energy=...) and in speech_features.
C30_FiniteEnergy ==
    EnergyReturned =>
        \A t \in 1..Len(ret.value.energy[1]) : EnergyFinite(ret.value.energy[1][t])


(***************************************************************************)
(* Claims about mel_filters                                                *)
(***************************************************************************)
MelDone == pc = "done" /\ args.op = "mel_filters"

\* the matrix returned has a row that is identically zero
MelZeroRow ==
    \E i \in 1..Len(ret.value.weights) :
        \A k \in 1..Len(ret.value.weights[i]) : ret.value.weights[i][k] = 0

\* C23: mel_filters never raises because of an empty filter, and whenever the
\* matrix it returns contains a row that is identically zero (for any
\* fmin >= 0, including a first filter whose lower edge is 0 Hz) the
\* empty-filter warning has been emitted during that call.
C23_EmptyFilterSignalled ==
    MelDone =>
        /\ Returned
        /\ MelZeroRow => loc.warned


(***************************************************************************)
(* Claims about the cached functions                                       *)
(***************************************************************************)
\* what the body of the function gives for a parameter tuple
C25_ResultOf(key) ==
    IF key.fn # "get_window" THEN CacheCompute(key, loc.own).value.value
    ELSE IF key.p[1].kind = "ndarray" THEN key.p[1].value
    ELSE CacheCompute([key EXCEPT !.p[1] = [kind |-> @.kind, name |-> @.name,
                                            owner |-> 0]], loc.own).value.value

\* a matrix handed to a worker is the one the function's body gives for the
\* parameter tuple of the call, and two workers holding matrices for the
\* same parameter tuple hold identical ones
C25_SameParametersSameResult ==
    /\ \A w \in Workers :
          (pc[w] = "done" /\ ret[w].kind = "return")
              => ret[w].value = C25_ResultOf(args[w].key)
    /\ \A w1, w2 \in Workers :
          (pc[w1] = "done" /\ pc[w2] = "done" /\ args[w1].key = args[w2].key)
              => ret[w1] = ret[w2]

\* a result in the cache stays, with the value it has
C25_NeverChangedOrRemoved ==
    \A k \in DOMAIN loc.cache :
        /\ k \in DOMAIN loc'.cache
        /\ loc'.cache[k] = loc.cache[k]
        /\ loc.cache[k].owner # 0
              => loc'.own[loc.cache[k].owner] = loc.own[loc.cache[k].owner]

SegNdDone == pc = "done" /\ args.op = "segment_axis_nd"

\* what segment_axis gives for one 1-D lane of the chosen axis
SegNdLane ==
    segment_axis([i \in 1..args.shape[args.axis + 1] |-> 1], args.frame_length,
                 args.hop_length, args.end, 0, "pre")

\* C28: for a multi-dimensional array and any axis (not only axis 0),
\* segment_axis with end='cut', 'pad' or 'wrap' frames along that axis: the
\* number of frames is computed from the (cut or extended) length of the
\* chosen axis, the result has shape a.shape[:axis] + (n, frame_length) +
\* a.shape[axis+1:], and the outcome does not depend on the size of any
\* other axis.
C28_FramesAlongAnyAxis ==
    SegNdDone =>
        IF SegNdLane.kind = "return"
        THEN /\ Returned
             /\ ret.value = IF args.axis = 0
                            THEN <<Len(SegNdLane.value), args.frame_length,
                                   args.shape[2]>>
                            ELSE <<args.shape[1], Len(SegNdLane.value),
                                   args.frame_length>>
        ELSE /\ Raised
             /\ ret.exc = SegNdLane.exc


(***************************************************************************)
(* Claims about the block loop of stft                                     *)
(***************************************************************************)
BlocksDone == pc = "done" /\ args.op = "stft_blocks"

\* the blocks are contiguous, disjoint and in increasing order, and each
\* holds between 1 and n_columns columns
BlocksInOrder ==
    /\ \A b \in 1..Len(loc.blocks) :
          /\ loc.blocks[b].bl_t - loc.blocks[b].bl_s >= 1
          /\ loc.blocks[b].bl_t - loc.blocks[b].bl_s <= loc.n_columns
          /\ loc.blocks[b].bl_s = IF b = 1 THEN 0 ELSE loc.blocks[b - 1].bl_t
    /\ Len(loc.blocks) >= 1 => loc.blocks[Len(loc.blocks)].bl_t = args.num_frames

\* C29: the block loop of stft writes every column 0..num_frames-1 of the
\* STFT matrix exactly once: blocks are contiguous, disjoint, in increasing
\* order, each has between 1 and n_columns columns with n_columns >= 1, and
\* the loop ends with the matrix, for every n_fft >= 1 and every number of
\* frames.
C29_EveryColumnOnce ==
    BlocksDone =>
        /\ loc.n_columns >= 1
        /\ Returned
        /\ \A c \in DOMAIN ret.value : ret.value[c] = 1
        /\ BlocksInOrder


=============================================================================
